---- MODULE Spec2Model ----
(***************************************************************************)
(* Pathwayz generative assessment pipeline.                                *)
(*                                                                         *)
(* Groups of operations are modelled, each with its own                    *)
(* specification over the shared variables:                                *)
(*   SpecCareer  the generateCareerAdvice handler and its retry loop       *)
(*   SpecTurn    the startGame / continueGame handlers                     *)
(*   SpecSkill   the advice page's skill-analysis cache and the            *)
(*               generateSkillAnalysis handler behind it                   *)
(*   SpecCacheRead  the skill-analysis cache of one page, with the         *)
(*                  outcome of each cache read recorded                    *)
(*   SpecAnalysis  the generateSkillAnalysis handler on its own            *)
(*   SpecProfile   the generateProfile handler, the results flow that      *)
(*                 stores its profile, and the advice page's profile load  *)
(*   SpecGame      the quiz client and the turn handlers behind it         *)
(*   SpecFallback  the fallback of continueGame as a function of its       *)
(*                 inputs                                                  *)
(*   SpecStages    the five handlers, one request served at a time         *)
(*   SpecServer    the handlers serving two users' requests concurrently   *)
(*   SpecResults   the quiz client's results flow: transcript, profile,    *)
(*                 career advice, navigation                               *)
(***************************************************************************)
EXTENDS Integers, Sequences, FiniteSets, TLC

(***************************************************************************)
(* JavaScript values, tagged by type.  JSON.parse yields these; the        *)
(* handlers test them with !v, Array.isArray(v) and v.length.              *)
(***************************************************************************)
Undef == [t |-> "undefined"]

Null == [t |-> "null"]

Str(s) == [t |-> "string", s |-> s]

Arr(items) == [t |-> "array", items |-> items]

Obj(f) == [t |-> "object", f |-> f]

\* !v is false exactly for the truthy values: "" is falsy, [] and {} are truthy
Truthy(v) ==
  CASE v.t = "undefined" -> FALSE
    [] v.t = "null" -> FALSE
    [] v.t = "string" -> v.s # ""
    [] OTHER -> TRUE

IsArray(v) == v.t = "array"

\* v.name throws a TypeError when v is null or undefined
AccessThrows(v) == v.t \in {"undefined", "null"}

\* v.name: the field of an object, undefined for a missing field or a scalar
Get(v, name) ==
  IF v.t = "object" /\ name \in DOMAIN v.f THEN v.f[name] ELSE Undef

(***************************************************************************)
(* The oracle (Gemini over HTTP).  One call ends in one of these ways:     *)
(*   networkError  fetch rejects                                           *)
(*   httpError     response.ok is false                                    *)
(*   emptyOutput   no candidates[0].content.parts[0].text                  *)
(*   nonJson       JSON.parse of the cleaned text throws                   *)
(*   json          JSON.parse yields value                                 *)
(***************************************************************************)
OracleFailureKinds == {"networkError", "httpError", "emptyOutput", "nonJson"}

OracleFailure(k) == [kind |-> k, value |-> Undef]

OracleJson(v) == [kind |-> "json", value |-> v]

Methods == {"POST", "GET"}

NoRequest == [method |-> "none"]

NoResponse == [status |-> 0, body |-> Undef]

Response(status, body) == [status |-> status, body |-> body]

ErrorBody == Obj([error |-> Str("error")])

(***************************************************************************)
(* State.                                                                  *)
(***************************************************************************)
VARIABLES
  careerReq,       \* generateCareerAdvice: the request body being served
  careerPc,        \* "idle" | "calling" | "backoff" | "responded"
  attempts,        \* callGeminiAPIWithGrounding: let attempts
  careerCalls,     \* oracle invocations (fetch) made for this request
  careerFailures,  \* attempts of this request that ended in the catch block
  careerFallbacks, \* times the fallback object was returned for this request
  waits,           \* the backoff waits performed for this request, in ms
  careerRes,       \* the handler's response
  turnOp,          \* "none" | "start" | "continue": the turn handler serving
  turnReq,         \* startGame / continueGame: the request body being served
  turnPc,          \* "idle" | "calling" | "responded"
  currentTurn,     \* continueGame handler: const currentTurn (0 when not computed)
  turnCalls,       \* oracle invocations (fetch) made for this request
  storeReads,      \* reads of users/{uid} made for this request
  storeRead,       \* "none", or how the read of users/{uid} of this request ended
  turnOracle,      \* how the oracle call of this request ended
  turnRes,         \* the handler's response
  userProfile,     \* AdvicePage, per page instance: useState userProfile
  skillAnalysisCache, \* AdvicePage, per page instance: useState skillAnalysisCache
  modal,           \* AdvicePage, per page instance: the modal's state
  skillDoc,        \* the persisted document skillAnalysis/{uid}
  clicks,          \* the handlePathClick invocations so far, each with its position
  skillCalls,      \* oracle invocations made by generateSkillAnalysis requests
  analysisReq,     \* generateSkillAnalysis handler: the request being served
  analysisPc,      \* "idle" | "calling" | "responded"
  analysisCalls,   \* oracle invocations (fetch) made for this request
  analysisOracle,  \* how the oracle call of this request ended
  analysisRes,     \* the handler's response
  profileReq,      \* generateProfile handler: the request being served
  profilePc,       \* "idle" | "calling" | "responded"
  profileCalls,    \* oracle invocations (fetch) made for this request
  profileOracle,   \* how the oracle call of this request ended
  profileRes,      \* the handler's response
  resultsPc,       \* handleViewResults: "none" | "awaitProfile" | "saveProfile"
                   \*   | "profileSaved" | "failed"
  resultsProfile,  \* generateUserProfile: const profileData
  transcriptDoc,   \* the persisted document gameTranscripts/{uid}
  userProfilesDoc, \* the persisted document userProfiles/{uid}
  isLoading,       \* GameScreen: useState isLoading (startGame in flight)
  currentScene,    \* GameScreen: useState currentScene
  conversationHistory, \* GameScreen: useState conversationHistory
  isGameFinished,  \* GameScreen: useState isGameFinished
  selectedOptions, \* GameScreen: useState selectedOptions (option ids)
  questionCount,   \* GameScreen: useState questionCount
  isSubmitting,    \* GameScreen: useState isSubmitting
  newConversationHistory, \* continueGame: the transcript posted by the call in flight
  requestedTurns,  \* continueGame handler: currentTurn of each request of the session
  startOutcome,    \* "pending" | "ok" | "failed": how the session's startGame ended
  pendingCalls,    \* continueGame calls not yet settled, each with the values it closed over
  fallbackCall,    \* continueGame callGeminiAPI: the inputs of the latest failed call
  fallbackOutput,  \* what its catch block returned
  fallbackPrev,    \* the turn number and the return value of the failed call before it
  fallbackCalls,   \* failed calls made so far
  invocations,     \* per user: the handler invocation serving the user's request
  views,           \* the handleViewResults runs so far, each with its position
  isSavingResults, \* GameScreen: useState isSavingResults
  isGeneratingCareerAdvice, \* GameScreen: useState isGeneratingCareerAdvice
  resultDocs       \* the documents gameTranscripts, userProfiles, careerAdvice /{uid}

careerVars == <<careerReq, careerPc, attempts, careerCalls, careerFailures,
                careerFallbacks, waits, careerRes>>

turnVars == <<turnOp, turnReq, turnPc, currentTurn, turnCalls, storeReads,
              storeRead, turnOracle, turnRes>>

skillVars == <<userProfile, skillAnalysisCache, modal, skillDoc, clicks, skillCalls>>

analysisVars == <<analysisReq, analysisPc, analysisCalls, analysisOracle, analysisRes>>

profileVars == <<profileReq, profilePc, profileCalls, profileOracle, profileRes,
                 resultsPc, resultsProfile, transcriptDoc, userProfilesDoc>>

gameVars == <<isLoading, currentScene, conversationHistory, isGameFinished,
              selectedOptions, questionCount, isSubmitting, newConversationHistory,
              requestedTurns, startOutcome, pendingCalls>>

fallbackVars == <<fallbackCall, fallbackOutput, fallbackPrev, fallbackCalls>>

serverVars == <<invocations>>

viewVars == <<views, isSavingResults, isGeneratingCareerAdvice, resultDocs>>

vars == <<careerVars, turnVars, skillVars, analysisVars, profileVars, gameVars,
          fallbackVars, serverVars, viewVars>>

\* what the operations of one group leave alone
notCareer ==
  <<turnVars, skillVars, analysisVars, profileVars, gameVars, fallbackVars, serverVars,
    viewVars>>

notTurn ==
  <<careerVars, skillVars, analysisVars, profileVars, gameVars, fallbackVars, serverVars,
    viewVars>>

notSkill ==
  <<careerVars, turnVars, analysisVars, profileVars, gameVars, fallbackVars, serverVars,
    viewVars>>

notAnalysis ==
  <<careerVars, turnVars, skillVars, profileVars, gameVars, fallbackVars, serverVars,
    viewVars>>

notProfile ==
  <<careerVars, turnVars, analysisVars, gameVars, fallbackVars, serverVars,
    viewVars>>

notFallback ==
  <<careerVars, turnVars, skillVars, analysisVars, profileVars, gameVars, serverVars,
    viewVars>>

notGame ==
  <<careerVars, turnVars, skillVars, analysisVars, profileVars, fallbackVars, serverVars,
    viewVars>>

notView ==
  <<careerVars, turnVars, skillVars, analysisVars, profileVars, gameVars, fallbackVars,
    serverVars>>

notServer ==
  <<careerVars, turnVars, skillVars, analysisVars, profileVars, gameVars, fallbackVars,
    viewVars>>

(***************************************************************************)
(* Bounds of the model.                                                    *)
(***************************************************************************)
\* longest paths array the oracle is made to return
MaxPaths == 6

\* longest conversationHistory a client sends to continueGame
MaxHistory == 10

\* path clicks made over the page instances
MaxClicks == 2

\* longest totalSkills / skillGap list the oracle is made to return
MaxSkills == 6

\* longest conversationHistory sent to generateProfile
MaxTranscript == 2

\* advance-turn requests one game session makes
MaxExchanges == 3

\* largest turn number callGeminiAPI of continueGame is called with
MaxTurn == 10

\* failed calls of callGeminiAPI of continueGame
MaxFallbackCalls == 3

\* runs of handleViewResults in one session
MaxViews == 2

\* path clicks on the page whose cache reads are observed
MaxObservedClicks == 2

(***************************************************************************)
(* generateCareerAdvice: TraitProfile -> CareerAdvice                      *)
(***************************************************************************)
maxAttempts == 3

RequiredPaths == 5

BackoffBaseMs == 1000

ListFields == {"coreMotivators", "keyAptitudes", "interestsAndPassions"}

StringFields == {"problemSolvingStyle", "preferredWorkEnvironment", "personalitySummary"}

requiredFields == ListFields \cup StringFields

\* what a client can put in a list field / a string field of userProfile
ListValues == {Undef, Arr(<<>>), Arr(<<Str("text")>>)}

StringValues == {Undef, Str(""), Str("text")}

UserProfiles ==
  {Obj(f) : f \in {g \in [requiredFields -> ListValues \cup StringValues] :
                     /\ \A k \in ListFields : g[k] \in ListValues
                     /\ \A k \in StringFields : g[k] \in StringValues}}

CareerRequests ==
  [method : Methods, userUid : {Undef, Str("uid")}, userProfile : {Undef} \cup UserProfiles]

\* a path as the oracle may return it
PathItems ==
  {Null,
   Obj([title |-> Undef, description |-> Str("text")]),
   Obj([title |-> Str("text"), description |-> Str("")]),
   Obj([title |-> Str("text"), description |-> Str("text")])}

PathSeqs == UNION {[1..n -> PathItems] : n \in 0..MaxPaths}

CareerJsonValues ==
  {Null, Str("text")}
  \cup {Obj([direction |-> d, paths |-> p]) :
          d \in {Undef, Str(""), Str("text")},
          p \in {Undef, Str("text")} \cup {Arr(s) : s \in PathSeqs}}

CareerOutcomes ==
  {OracleFailure(k) : k \in OracleFailureKinds} \cup {OracleJson(v) : v \in CareerJsonValues}

\* lines 196-206: the structure check and the per-path check; a null
\* careerAdvice or a null path makes the property access throw, which the
\* same catch block handles
ValidCareerAdviceNoPathCheck(v) ==
  /\ ~AccessThrows(v)
  /\ Truthy(Get(v, "direction"))
  /\ Truthy(Get(v, "paths"))
  /\ IsArray(Get(v, "paths"))
  /\ Len(Get(v, "paths").items) = RequiredPaths

ValidCareerAdvice(v) ==
  /\ ~AccessThrows(v)
  /\ Truthy(Get(v, "direction"))
  /\ Truthy(Get(v, "paths"))
  /\ IsArray(Get(v, "paths"))
  /\ Len(Get(v, "paths").items) = RequiredPaths
  /\ \A i \in 1..Len(Get(v, "paths").items) :
       LET path == Get(v, "paths").items[i] IN
         /\ ~AccessThrows(path)
         /\ Truthy(Get(path, "title"))
         /\ Truthy(Get(path, "description"))

\* lines 177-209: the try block of one attempt succeeds
AttemptSucceeds(outcome) ==
  outcome.kind = "json" /\ ValidCareerAdvice(outcome.value)

\* lines 218-242: the fallback object
FallbackPath(n) == Obj([title |-> Str("fallback title"), description |-> Str("fallback description")])

FallbackCareerAdviceFourPaths ==
  Obj([direction |-> Str("fallback direction"),
       paths |-> Arr([n \in 1..4 |-> FallbackPath(n)])])

FallbackCareerAdvice ==
  Obj([direction |-> Str("fallback direction"),
       paths |-> Arr([n \in 1..5 |-> FallbackPath(n)])])

\* line 145: while (attempts < maxAttempts)
LoopContinues(a) == a < maxAttempts

\* line 214: if (attempts === maxAttempts)
IsFinalAttemptNever(a) == FALSE

IsFinalAttemptEarly(a) == a >= maxAttempts - 1

IsFinalAttempt(a) == a = maxAttempts

\* a loop that would go straight to the next attempt
WaitsBeforeRetryNever(a) == FALSE

\* line 246: if (attempts < maxAttempts)
WaitsBeforeRetry(a) == a < maxAttempts

\* line 247: Math.pow(2, attempts) * 1000
waitTimeZeroBased(a) == (2 ^ (a - 1)) * BackoffBaseMs

waitTime(a) == (2 ^ a) * BackoffBaseMs

\* lines 267-281: the handler's checks of the request body
CareerBodyValid(req) ==
  /\ Truthy(req.userUid)
  /\ Truthy(req.userProfile)
  /\ \A field \in requiredFields : Truthy(Get(req.userProfile, field))

\* line 145-157: the loop head, then attempts++ and the fetch of one attempt;
\* line 255: the throw after the loop, which the handler turns into a 500
CareerLoopHead ==
  IF LoopContinues(attempts)
    THEN /\ attempts' = attempts + 1
         /\ careerCalls' = careerCalls + 1
         /\ careerPc' = "calling"
         /\ careerRes' = NoResponse
    ELSE /\ careerPc' = "responded"
         /\ careerRes' = Response(500, ErrorBody)
         /\ UNCHANGED <<attempts, careerCalls>>

\* handler, lines 258-287: a request arrives
GenerateCareerAdviceHandler(req) ==
  /\ careerReq' = req
  /\ IF req.method # "POST"
       THEN /\ careerPc' = "responded"
            /\ careerRes' = Response(405, ErrorBody)
            /\ UNCHANGED <<attempts, careerCalls>>
       ELSE IF ~CareerBodyValid(req)
         THEN /\ careerPc' = "responded"
              /\ careerRes' = Response(400, ErrorBody)
              /\ UNCHANGED <<attempts, careerCalls>>
         ELSE CareerLoopHead
  /\ UNCHANGED <<careerFailures, careerFallbacks, waits>>

GenerateCareerAdviceRequest ==
  /\ careerPc = "idle"
  /\ \E req \in CareerRequests : GenerateCareerAdviceHandler(req)
  /\ UNCHANGED notCareer

\* lines 177-250: the oracle's reply to the attempt in flight
CareerAttemptEnds(outcome) ==
  /\ IF AttemptSucceeds(outcome)
       THEN /\ careerPc' = "responded"
            /\ careerRes' = Response(200, outcome.value)
            /\ UNCHANGED <<attempts, careerCalls, careerFailures, careerFallbacks, waits>>
       ELSE /\ careerFailures' = careerFailures + 1
            /\ IF IsFinalAttempt(attempts)
                 THEN /\ careerPc' = "responded"
                      /\ careerRes' = Response(200, FallbackCareerAdvice)
                      /\ careerFallbacks' = careerFallbacks + 1
                      /\ UNCHANGED <<attempts, careerCalls, waits>>
                 ELSE IF WaitsBeforeRetry(attempts)
                   THEN /\ careerPc' = "backoff"
                        /\ waits' = Append(waits, waitTime(attempts))
                        /\ UNCHANGED <<attempts, careerCalls, careerFallbacks, careerRes>>
                   ELSE /\ CareerLoopHead
                        /\ UNCHANGED <<careerFallbacks, waits>>
  /\ UNCHANGED careerReq

CareerOracleReply ==
  /\ careerPc = "calling"
  /\ \E outcome \in CareerOutcomes : CareerAttemptEnds(outcome)
  /\ UNCHANGED notCareer

\* line 249: the timer of the backoff fires, control returns to the loop head
CareerBackoffElapsed ==
  /\ careerPc = "backoff"
  /\ CareerLoopHead
  /\ UNCHANGED <<careerReq, careerFailures, careerFallbacks, waits>>
  /\ UNCHANGED notCareer

\* the handler keeps nothing between requests: the next request starts afresh
CareerNextRequest ==
  /\ careerPc = "responded"
  /\ careerPc' = "idle"
  /\ careerReq' = NoRequest
  /\ careerRes' = NoResponse
  /\ attempts' = 0
  /\ careerCalls' = 0
  /\ careerFailures' = 0
  /\ careerFallbacks' = 0
  /\ waits' = <<>>
  /\ UNCHANGED notCareer

InitCareer ==
  /\ careerReq = NoRequest
  /\ careerPc = "idle"
  /\ attempts = 0
  /\ careerCalls = 0
  /\ careerFailures = 0
  /\ careerFallbacks = 0
  /\ waits = <<>>
  /\ careerRes = NoResponse

NextCareer ==
  \/ GenerateCareerAdviceRequest
  \/ CareerOracleReply
  \/ CareerBackoffElapsed
  \/ CareerNextRequest

(***************************************************************************)
(* startGame / continueGame: turn generation                               *)
(***************************************************************************)
NoOutcome == [kind |-> "none", value |-> Undef]

Entry(type) == Obj([type |-> Str(type), content |-> Str("text")])

Histories == UNION {[1..n -> {Entry("ai"), Entry("user")}] : n \in 0..MaxHistory}

ContinueRequests ==
  [method : Methods, userUid : {Undef, Str("uid")},
   conversationHistory : {Undef, Str("text")} \cup {Arr(h) : h \in Histories}]

IntakeData == Obj([name |-> Str("Asha"), stage |-> Str("Class 12")])

StartRequests ==
  [method : Methods, userUid : {Undef, Str("uid")}, userData : {Undef, Null, IntakeData}]

\* db.collection('users').doc(uid).get(): the document exists, does not, or the read fails
StoreReadResults == {"exists", "missing", "error"}

FourOptionTexts == Arr([i \in 1..4 |-> Str("option")])

FourOptionObjects == Arr([i \in 1..4 |-> Obj([id |-> Str("id"), text |-> Str("option")])])

QuestionTypeValues ==
  {Undef, Str(""), Str("single-choice"), Str("multi-choice"), Str("finale"), Str("other")}

TurnJsonValues ==
  {Null, Str("text")}
  \cup {Obj([narrative |-> n, questionType |-> q, options |-> o]) :
          n \in {Undef, Str(""), Str("text")},
          q \in QuestionTypeValues,
          o \in {Undef, Arr(<<>>), FourOptionTexts}}

TurnOutcomes ==
  {OracleFailure(k) : k \in OracleFailureKinds} \cup {OracleJson(v) : v \in TurnJsonValues}

\* part_001 lines 131-133, startGame.ts lines 137-139: the structure check;
\* a null gameResponse makes the property access throw into the same catch
ValidGameResponse(v) ==
  /\ ~AccessThrows(v)
  /\ Truthy(Get(v, "narrative"))
  /\ Truthy(Get(v, "questionType"))

\* the try block of callGeminiAPI returns the parsed response
GameResponseAccepted(outcome) ==
  outcome.kind = "json" /\ ValidGameResponse(outcome.value)

\* part_001 lines 143-181: fallbackResponses[0..3], here indexed 1..4
FallbackEntry(narrative, questionType, question) ==
  Obj([narrative |-> Str(narrative), questionType |-> Str(questionType),
       question |-> Str(question), options |-> FourOptionObjects])

fallbackResponses ==
  <<FallbackEntry("demo work environment", "single-choice", "which environment"),
    FallbackEntry("demo problem solving", "multi-choice", "which approaches"),
    FallbackEntry("demo interests", "single-choice", "which activities"),
    Obj([narrative |-> Str("demo finale"), questionType |-> Str("finale")])>>

\* an index that reaches the finale entry from turn 5
fallbackIndexFinaleFromFive(turn) ==
  IF turn >= 5 THEN 3
  ELSE IF turn >= 3 THEN 1
  ELSE 0

\* part_001 lines 184-193: the index into fallbackResponses (0-based in the source)
fallbackIndex(turn) ==
  IF turn >= 8 THEN 3
  ELSE IF turn >= 5 THEN 2
  ELSE IF turn >= 3 THEN 1
  ELSE 0

\* a fallback chosen by the number of earlier calls instead of the turn
ContinueFallbackRotating(turn) == fallbackResponses[(fallbackCalls % 4) + 1]

\* part_001 lines 137-197: the catch block of continueGame's callGeminiAPI
ContinueFallback(turn) == fallbackResponses[fallbackIndex(turn) + 1]

\* startGame.ts lines 149-159: the catch block of startGame's callGeminiAPI
StartFallback ==
  Obj([narrative |-> Str("demo welcome"), questionType |-> Str("multi-choice"),
       question |-> Str("which activities"), options |-> FourOptionObjects])

\* part_001 lines 224-225: count of 'ai' entries, plus one
aiResponseCount(h) ==
  Cardinality({i \in 1..Len(h) : Get(h[i], "type") = Str("ai")})

\* a turn number counted over all entries of the transcript
TurnNumberByLength(h) == Len(h) + 1

TurnNumber(h) == aiResponseCount(h) + 1

\* a check of the transcript alone
ContinueBodyValidNoUid(req) ==
  /\ Truthy(req.conversationHistory)
  /\ IsArray(req.conversationHistory)

\* part_001 lines 215-221
ContinueBodyValid(req) ==
  /\ Truthy(req.conversationHistory)
  /\ IsArray(req.conversationHistory)
  /\ Truthy(req.userUid)

\* part_001 handler, lines 206-241: a request arrives
ContinueGameHandler(req) ==
  /\ turnOp' = "continue"
  /\ turnReq' = req
  /\ IF req.method # "POST"
       THEN /\ turnPc' = "responded"
            /\ turnRes' = Response(405, ErrorBody)
            /\ UNCHANGED <<currentTurn, turnCalls>>
       ELSE IF ~ContinueBodyValid(req)
         THEN /\ turnPc' = "responded"
              /\ turnRes' = Response(400, ErrorBody)
              /\ UNCHANGED <<currentTurn, turnCalls>>
         ELSE /\ currentTurn' = TurnNumber(req.conversationHistory.items)
              /\ turnCalls' = turnCalls + 1
              /\ turnPc' = "calling"
              /\ turnRes' = NoResponse
  /\ UNCHANGED <<storeReads, storeRead, turnOracle>>

ContinueGameRequest ==
  /\ turnPc = "idle"
  /\ \E req \in ContinueRequests : ContinueGameHandler(req)
  /\ UNCHANGED notTurn

\* part_001 callGeminiAPI lines 114-197 and handler line 244
\* (the rethrow stands for a catch block that does not absorb the failure,
\*  which the handler's own catch would answer with 500)
ContinueResultRethrow(outcome, turn) ==
  IF GameResponseAccepted(outcome)
    THEN Response(200, outcome.value)
    ELSE Response(500, ErrorBody)

ContinueResult(outcome, turn) ==
  IF GameResponseAccepted(outcome)
    THEN Response(200, outcome.value)
    ELSE Response(200, ContinueFallback(turn))

\* a callGeminiAPI that would call the oracle a second time after a failed call
ContinueGameOracleReplyRetrying ==
  /\ turnPc = "calling"
  /\ turnOp = "continue"
  /\ \E outcome \in TurnOutcomes :
       /\ turnOracle' = outcome
       /\ IF ~GameResponseAccepted(outcome) /\ turnCalls < 2
            THEN /\ turnCalls' = turnCalls + 1
                 /\ turnPc' = "calling"
                 /\ turnRes' = NoResponse
            ELSE /\ turnRes' = ContinueResult(outcome, currentTurn)
                 /\ turnPc' = "responded"
                 /\ UNCHANGED turnCalls
  /\ UNCHANGED <<turnOp, turnReq, currentTurn, storeReads, storeRead>>
  /\ UNCHANGED notTurn

\* part_001 lines 89-198: the one oracle call of the request ends
ContinueGameOracleReply ==
  /\ turnPc = "calling"
  /\ turnOp = "continue"
  /\ \E outcome \in TurnOutcomes :
       /\ turnOracle' = outcome
       /\ turnRes' = ContinueResult(outcome, currentTurn)
  /\ turnPc' = "responded"
  /\ UNCHANGED <<turnOp, turnReq, currentTurn, turnCalls, storeReads, storeRead>>
  /\ UNCHANGED notTurn

\* a getUserData whose catch block would hand on a default record
getUserDataDefaulting(read) == IF read = "missing" THEN Null ELSE IntakeData

\* startGame.ts getUserData, lines 78-93
getUserData(read) == IF read = "exists" THEN IntakeData ELSE Null

\* startGame.ts handler, lines 163-195: a request arrives
StartGameHandler(req, read) ==
  /\ turnOp' = "start"
  /\ turnReq' = req
  /\ IF req.method # "POST"
       THEN /\ turnPc' = "responded"
            /\ turnRes' = Response(405, ErrorBody)
            /\ UNCHANGED <<turnCalls, storeReads, storeRead>>
       ELSE IF ~Truthy(req.userUid)
         THEN /\ turnPc' = "responded"
              /\ turnRes' = Response(400, ErrorBody)
              /\ UNCHANGED <<turnCalls, storeReads, storeRead>>
         ELSE LET finalUserData ==
                    IF Truthy(req.userData) THEN req.userData ELSE getUserData(read)
              IN /\ storeReads' = IF Truthy(req.userData) THEN storeReads ELSE storeReads + 1
                 /\ storeRead' = IF Truthy(req.userData) THEN storeRead ELSE read
                 /\ IF ~Truthy(finalUserData)
                      THEN /\ turnPc' = "responded"
                           /\ turnRes' = Response(404, ErrorBody)
                           /\ UNCHANGED turnCalls
                      ELSE /\ turnCalls' = turnCalls + 1
                           /\ turnPc' = "calling"
                           /\ turnRes' = NoResponse
  /\ UNCHANGED <<currentTurn, turnOracle>>

StartGameRequest ==
  /\ turnPc = "idle"
  /\ \E req \in StartRequests, read \in StoreReadResults : StartGameHandler(req, read)
  /\ UNCHANGED notTurn

\* startGame.ts callGeminiAPI lines 120-160 and handler line 198
StartResult(outcome) ==
  IF GameResponseAccepted(outcome)
    THEN Response(200, outcome.value)
    ELSE Response(200, StartFallback)

StartGameOracleReply ==
  /\ turnPc = "calling"
  /\ turnOp = "start"
  /\ \E outcome \in TurnOutcomes :
       /\ turnOracle' = outcome
       /\ turnRes' = StartResult(outcome)
  /\ turnPc' = "responded"
  /\ UNCHANGED <<turnOp, turnReq, currentTurn, turnCalls, storeReads, storeRead>>
  /\ UNCHANGED notTurn

\* the handlers keep nothing between requests: the next request starts afresh
TurnNextRequest ==
  /\ turnPc = "responded"
  /\ turnPc' = "idle"
  /\ turnOp' = "none"
  /\ turnReq' = NoRequest
  /\ turnRes' = NoResponse
  /\ turnOracle' = NoOutcome
  /\ currentTurn' = 0
  /\ turnCalls' = 0
  /\ storeReads' = 0
  /\ storeRead' = "none"
  /\ UNCHANGED notTurn

InitTurn ==
  /\ turnOp = "none"
  /\ turnReq = NoRequest
  /\ turnPc = "idle"
  /\ currentTurn = 0
  /\ turnCalls = 0
  /\ storeReads = 0
  /\ storeRead = "none"
  /\ turnOracle = NoOutcome
  /\ turnRes = NoResponse

NextTurn ==
  \/ ContinueGameRequest
  \/ ContinueGameOracleReply
  \/ StartGameRequest
  \/ StartGameOracleReply
  \/ TurnNextRequest


(***************************************************************************)
(* Skill-gap analysis: the generateSkillAnalysis handler and the advice    *)
(* page's cache in front of it                                             *)
(***************************************************************************)
\* the advice page instances open for the one user: a page and a second tab
\* (or the page and its reload); each has its own React state, both share
\* the document store
Pages == {"first page", "second page"}

\* titles of the career paths the page shows
Titles == {"Path A", "Path B"}

CareerPathOf(title) == Obj([title |-> Str(title), description |-> Str("text")])

\* WelcomeScreen.tsx lines 38-44: the document users/{uid}, written by the
\* welcome form before the game; nothing else writes to the users collection
UsersDocData ==
  Obj([name |-> Str("Asha"), age |-> Str("17"), gender |-> Str("female"),
       academicStatus |-> Str("Class 12"), place |-> Str("Pune"),
       language |-> Str("English"), email |-> Str("mail"), uid |-> Str("uid"),
       createdAt |-> Str("timestamp"), updatedAt |-> Str("timestamp")])

\* AdvicePage.tsx lines 104-116: the profile object the page builds from the
\* fields of users/{uid}
LoadedProfile == Obj([field \in requiredFields |-> Get(UsersDocData, field)])

EmptyMap == [x \in {} |-> Undef]

SkillList(n) == Arr([i \in 1..n |-> Str("skill")])

Briefs == {"brief one", "brief two"}

\* what the oracle may return to the skills prompt
SkillJsonValues ==
  {Null}
  \cup {Obj([brief |-> b, totalSkills |-> SkillList(3), skillGap |-> g]) :
          b \in {Str(x) : x \in Briefs}, g \in {Undef, SkillList(2)}}

SkillOutcomes ==
  {OracleFailure(k) : k \in OracleFailureKinds} \cup {OracleJson(v) : v \in SkillJsonValues}

\* part_000 lines 428-435: the structure checks of the skills callGeminiAPI
ValidSkillAnalysis(v) ==
  /\ ~AccessThrows(v)
  /\ Truthy(Get(v, "brief"))
  /\ Truthy(Get(v, "totalSkills"))
  /\ Truthy(Get(v, "skillGap"))
  /\ IsArray(Get(v, "totalSkills"))
  /\ IsArray(Get(v, "skillGap"))

\* a handler that would absorb a failed oracle call with a canned analysis
SkillHandlerResultFabricating(method, body, outcome) ==
  IF method # "POST" THEN Response(405, ErrorBody)
  ELSE IF ~Truthy(Get(body, "userProfile")) THEN Response(400, ErrorBody)
  ELSE IF ~Truthy(Get(body, "careerPath")) THEN Response(400, ErrorBody)
  ELSE IF outcome.kind = "json" /\ ValidSkillAnalysis(outcome.value)
    THEN Response(200, outcome.value)
    ELSE Response(200, Obj([brief |-> Str("brief one"), totalSkills |-> SkillList(3),
                            skillGap |-> SkillList(2)]))

\* part_000 lines 447-480: the handler's answer to one request; callGeminiAPI
\* (lines 375-445) rethrows every failure, which the handler answers with 500
SkillHandlerResult(method, body, outcome) ==
  IF method # "POST" THEN Response(405, ErrorBody)
  ELSE IF ~Truthy(Get(body, "userProfile")) THEN Response(400, ErrorBody)
  ELSE IF ~Truthy(Get(body, "careerPath")) THEN Response(400, ErrorBody)
  ELSE IF outcome.kind = "json" /\ ValidSkillAnalysis(outcome.value)
    THEN Response(200, outcome.value)
    ELSE Response(500, ErrorBody)

\* the handler calls the oracle only past its 405 / 400 answers
SkillHandlerCallsOracle(method, body) ==
  /\ method = "POST"
  /\ Truthy(Get(body, "userProfile"))
  /\ Truthy(Get(body, "careerPath"))

\* AdvicePage.tsx lines 202-205 and 226-229: {...skillAnalysisData, createdAt}
WithCreatedAt(v) ==
  Obj([k \in DOMAIN v.f \cup {"createdAt"} |->
         IF k = "createdAt" THEN Str("timestamp") ELSE v.f[k]])

\* AdvicePage.tsx lines 157-161: the three fields of a persisted entry
ThreeFields(v) ==
  Obj([brief |-> Get(v, "brief"), totalSkills |-> Get(v, "totalSkills"),
       skillGap |-> Get(v, "skillGap")])

\* map[title], undefined when the map has no such key
Lookup(map, title) == IF title \in DOMAIN map THEN map[title] ELSE Undef

\* AdvicePage.tsx lines 138-141: the local cache check of checkSkillAnalysisCache
LocalCacheSkipped(cache, title) == Undef

LocalCacheLookup(cache, title) == Lookup(cache, title)

\* {...map, [title]: entry}
Spread(map, title, entry) ==
  [k \in DOMAIN map \cup {title} |-> IF k = title THEN entry ELSE map[k]]

\* AdvicePage.tsx lines 224-230: setSkillAnalysisCache(prev => ({...prev, [title]: ...}))
LocalCacheNotUpdated(prev, title, data) == prev

UpdateLocalCache(prev, title, data) == Spread(prev, title, WithCreatedAt(data))

\* AdvicePage.tsx lines 212-215: the document setDoc writes
MergedDocument(existingData, title, data) ==
  Spread(existingData, title, WithCreatedAt(data))

\* the document store: a read or a write succeeds or fails
StoreResults == {"ok", "error"}

NoClick ==
  [page |-> "none", title |-> "", pc |-> "none", profile |-> Null,
   existingData |-> EmptyMap, data |-> Undef, result |-> Undef,
   calledOracle |-> FALSE, saved |-> FALSE, hit |-> "none",
   producedHere |-> FALSE, producedAnywhere |-> FALSE, storeEntry |-> Undef,
   readFailed |-> FALSE, failure |-> "none"]

\* an analysis for the title was produced by a completed click (on the page)
ProducedOn(page, title) ==
  \E i \in 1..Len(clicks) :
    /\ clicks[i].page = page
    /\ clicks[i].title = title
    /\ clicks[i].pc = "shown"
    /\ clicks[i].calledOracle

Produced(title) == \E page \in Pages : ProducedOn(page, title)

OpenModal(title) ==
  [isModalOpen |-> TRUE, selectedPath |-> title, skillAnalysis |-> Undef,
   analysisError |-> FALSE, isAnalysisLoading |-> TRUE]

ClosedModal ==
  [isModalOpen |-> FALSE, selectedPath |-> "", skillAnalysis |-> Undef,
   analysisError |-> FALSE, isAnalysisLoading |-> FALSE]

\* lines 251-252 / 256-257: setSkillAnalysis(x); setIsAnalysisLoading(false)
ShowAnalysis(m, x) == [m EXCEPT !.skillAnalysis = x, !.isAnalysisLoading = FALSE]

\* lines 261-262: setAnalysisError(message); setIsAnalysisLoading(false)
ShowError(m) == [m EXCEPT !.analysisError = TRUE, !.isAnalysisLoading = FALSE]

\* AdvicePage.tsx lines 100-125: fetchUserProfile resolves
FetchUserProfile(page) ==
  /\ userProfile[page] = Null
  /\ userProfile' = [userProfile EXCEPT ![page] = LoadedProfile]
  /\ UNCHANGED <<skillAnalysisCache, modal, skillDoc, clicks, skillCalls>>
  /\ UNCHANGED notSkill

\* AdvicePage.tsx lines 239-248 and 135-144: a path card is clicked (the
\* handler has no guard against a click while another is in flight); the modal
\* opens, the local cache is consulted, and on a local miss the read of
\* skillAnalysis/{uid} is issued
HandlePathClick(page, title) ==
  /\ Len(clicks) < MaxClicks
  /\ LET cached == LocalCacheLookup(skillAnalysisCache[page], title)
         click == [NoClick EXCEPT !.page = page, !.title = title,
                                  !.profile = userProfile[page],
                                  !.producedHere = ProducedOn(page, title),
                                  !.producedAnywhere = Produced(title)]
     IN IF Truthy(cached)
          THEN /\ clicks' = Append(clicks, [click EXCEPT !.pc = "shown", !.hit = "local",
                                                         !.result = cached])
               /\ modal' = [modal EXCEPT ![page] = ShowAnalysis(OpenModal(title), cached)]
          ELSE /\ clicks' = Append(clicks, [click EXCEPT !.pc = "checkStore"])
               /\ modal' = [modal EXCEPT ![page] = OpenModal(title)]
  /\ UNCHANGED <<userProfile, skillAnalysisCache, skillDoc, skillCalls>>
  /\ UNCHANGED notSkill

\* AdvicePage.tsx lines 165-189 and 254-262: checkSkillAnalysisCache has
\* returned null, after a read that found no entry or in its catch block
\* after a read that failed, and generateSkillAnalysis begins: it throws
\* when the profile of the click's render is null, else it sends the request
BeginGenerate(i, readFailed) ==
  LET c == clicks[i] IN
    IF ~Truthy(c.profile)
      THEN /\ clicks' = [clicks EXCEPT ![i].pc = "error", ![i].failure = "profile",
                                       ![i].readFailed = readFailed]
           /\ modal' = [modal EXCEPT ![c.page] = ShowError(modal[c.page])]
      ELSE /\ clicks' = [clicks EXCEPT ![i].pc = "fetch", ![i].readFailed = readFailed]
           /\ UNCHANGED modal

\* a cache lookup whose failed read would be an error of the click
CheckStoreReplyAtThrowing(i, read, observed) ==
  /\ i \in 1..Len(clicks)
  /\ clicks[i].pc = "checkStore"
  /\ LET c == clicks[i]
         entry == IF read = "ok" /\ skillDoc.exists
                    THEN Lookup(skillDoc.data, c.title) ELSE Undef
     IN IF read = "error"
          THEN /\ clicks' = [clicks EXCEPT ![i].pc = "error", ![i].failure = "cache",
                                           ![i].readFailed = observed]
               /\ modal' = [modal EXCEPT ![c.page] = ShowError(modal[c.page])]
               /\ UNCHANGED skillAnalysisCache
          ELSE IF Truthy(entry)
          THEN /\ skillAnalysisCache' =
                    [skillAnalysisCache EXCEPT
                       ![c.page] = Spread(skillAnalysisCache[c.page], c.title, entry)]
               /\ clicks' = [clicks EXCEPT ![i].pc = "shown", ![i].hit = "store",
                                           ![i].storeEntry = entry,
                                           ![i].result = ThreeFields(entry)]
               /\ modal' = [modal EXCEPT ![c.page] = ShowAnalysis(modal[c.page], ThreeFields(entry))]
          ELSE /\ BeginGenerate(i, observed /\ read = "error")
               /\ UNCHANGED skillAnalysisCache
  /\ UNCHANGED <<userProfile, skillDoc, skillCalls>>
  /\ UNCHANGED notSkill

\* AdvicePage.tsx lines 144-169 and 250-255: the read issued by
\* checkSkillAnalysisCache resolves or fails; a failed read is recorded in
\* the click when it is observed
CheckStoreReplyAt(i, read, observed) ==
  /\ i \in 1..Len(clicks)
  /\ clicks[i].pc = "checkStore"
  /\ LET c == clicks[i]
         entry == IF read = "ok" /\ skillDoc.exists
                    THEN Lookup(skillDoc.data, c.title) ELSE Undef
     IN IF Truthy(entry)
          THEN /\ skillAnalysisCache' =
                    [skillAnalysisCache EXCEPT
                       ![c.page] = Spread(skillAnalysisCache[c.page], c.title, entry)]
               /\ clicks' = [clicks EXCEPT ![i].pc = "shown", ![i].hit = "store",
                                           ![i].storeEntry = entry,
                                           ![i].result = ThreeFields(entry)]
               /\ modal' = [modal EXCEPT ![c.page] = ShowAnalysis(modal[c.page], ThreeFields(entry))]
          ELSE /\ BeginGenerate(i, observed /\ read = "error")
               /\ UNCHANGED skillAnalysisCache
  /\ UNCHANGED <<userProfile, skillDoc, skillCalls>>
  /\ UNCHANGED notSkill

\* the read settles, unobserved
CheckStoreReply(i, read) == CheckStoreReplyAt(i, read, FALSE)

\* AdvicePage.tsx lines 180-189 and 258-262: the request does not reach the
\* handler: fetch rejects, generateSkillAnalysis rethrows, the click's catch
\* block shows the error
SkillApiUnreachable(i) ==
  /\ i \in 1..Len(clicks)
  /\ clicks[i].pc = "fetch"
  /\ clicks' = [clicks EXCEPT ![i].pc = "error", ![i].failure = "fetch"]
  /\ modal' = [modal EXCEPT ![clicks[i].page] = ShowError(modal[clicks[i].page])]
  /\ UNCHANGED <<userProfile, skillAnalysisCache, skillDoc, skillCalls>>
  /\ UNCHANGED notSkill

\* AdvicePage.tsx lines 180-208 with the handler of part_000 behind the
\* request: the response arrives; on 200 the read of the existing document
\* is issued, otherwise generateSkillAnalysis throws
SkillApiReply(i, outcome) ==
  /\ i \in 1..Len(clicks)
  /\ clicks[i].pc = "fetch"
  /\ LET c == clicks[i]
         body == Obj([userProfile |-> c.profile, careerPath |-> CareerPathOf(c.title)])
         res == SkillHandlerResult("POST", body, outcome)
         called == SkillHandlerCallsOracle("POST", body)
     IN /\ skillCalls' = IF called THEN skillCalls + 1 ELSE skillCalls
        /\ IF res.status = 200
             THEN /\ clicks' = [clicks EXCEPT ![i].pc = "saveRead", ![i].data = res.body,
                                              ![i].calledOracle = called]
                  /\ UNCHANGED modal
             ELSE /\ clicks' = [clicks EXCEPT ![i].pc = "error", ![i].calledOracle = called,
                                              ![i].failure = "response"]
                  /\ modal' = [modal EXCEPT ![c.page] = ShowError(modal[c.page])]
  /\ UNCHANGED <<userProfile, skillAnalysisCache, skillDoc>>
  /\ UNCHANGED notSkill

\* AdvicePage.tsx lines 223-232 and 256-257: the local cache is updated and
\* the new analysis is shown
FinishGenerate(i, saved) ==
  LET c == clicks[i] IN
    /\ skillAnalysisCache' =
         [skillAnalysisCache EXCEPT
            ![c.page] = UpdateLocalCache(skillAnalysisCache[c.page], c.title, c.data)]
    /\ clicks' = [clicks EXCEPT ![i].pc = "shown", ![i].saved = saved, ![i].result = c.data,
                                ![i].existingData = EmptyMap]
    /\ modal' = [modal EXCEPT ![c.page] = ShowAnalysis(modal[c.page], c.data)]

\* AdvicePage.tsx lines 208-215: the read of the existing document resolves
\* and setDoc is issued with the merged map, or the read fails and the save
\* is given up (lines 218-221)
SaveReadReply(i, read) ==
  /\ i \in 1..Len(clicks)
  /\ clicks[i].pc = "saveRead"
  /\ IF read = "ok"
       THEN /\ clicks' = [clicks EXCEPT
                 ![i].pc = "saveWrite",
                 ![i].existingData = IF skillDoc.exists THEN skillDoc.data ELSE EmptyMap]
            /\ UNCHANGED <<skillAnalysisCache, modal>>
       ELSE FinishGenerate(i, FALSE)
  /\ UNCHANGED <<userProfile, skillDoc, skillCalls>>
  /\ UNCHANGED notSkill

\* a save whose failed write would fail the click
SaveWriteReplyThrowing(i, write) ==
  /\ i \in 1..Len(clicks)
  /\ clicks[i].pc = "saveWrite"
  /\ IF write = "ok"
       THEN /\ skillDoc' = [exists |-> TRUE,
                            data |-> MergedDocument(clicks[i].existingData,
                                                    clicks[i].title, clicks[i].data)]
            /\ FinishGenerate(i, TRUE)
       ELSE /\ clicks' = [clicks EXCEPT ![i].pc = "error", ![i].failure = "save"]
            /\ modal' = [modal EXCEPT ![clicks[i].page] = ShowError(modal[clicks[i].page])]
            /\ UNCHANGED <<skillDoc, skillAnalysisCache>>
  /\ UNCHANGED <<userProfile, skillCalls>>
  /\ UNCHANGED notSkill

\* AdvicePage.tsx lines 212-232: setDoc takes effect and resolves, or fails
\* and leaves the document alone
SaveWriteReply(i, write) ==
  /\ i \in 1..Len(clicks)
  /\ clicks[i].pc = "saveWrite"
  /\ LET c == clicks[i] IN
       skillDoc' = IF write = "ok"
                     THEN [exists |-> TRUE,
                           data |-> MergedDocument(c.existingData, c.title, c.data)]
                     ELSE skillDoc
  /\ FinishGenerate(i, write = "ok")
  /\ UNCHANGED <<userProfile, skillCalls>>
  /\ UNCHANGED notSkill

InitSkill ==
  /\ userProfile = [p \in Pages |-> Null]
  /\ skillAnalysisCache = [p \in Pages |-> EmptyMap]
  /\ modal = [p \in Pages |-> ClosedModal]
  /\ skillDoc = [exists |-> FALSE, data |-> EmptyMap]
  /\ clicks = <<>>
  /\ skillCalls = 0

NextSkill ==
  \/ \E page \in Pages : FetchUserProfile(page)
  \/ \E page \in Pages, title \in Titles : HandlePathClick(page, title)
  \/ \E i \in 1..MaxClicks, read \in StoreResults : CheckStoreReply(i, read)
  \/ \E i \in 1..MaxClicks, outcome \in SkillOutcomes : SkillApiReply(i, outcome)
  \/ \E i \in 1..MaxClicks : SkillApiUnreachable(i)
  \/ \E i \in 1..MaxClicks, read \in StoreResults : SaveReadReply(i, read)
  \/ \E i \in 1..MaxClicks, write \in StoreResults : SaveWriteReply(i, write)

(***************************************************************************)
(* The skill-analysis cache of one page, with the outcome of each cache    *)
(* read recorded in its click                                              *)
(***************************************************************************)
ObservedPage == "first page"

\* AdvicePage.tsx lines 239-248: a path card of the page is clicked
ObservedPathClick(title) ==
  /\ Len(clicks) < MaxObservedClicks
  /\ HandlePathClick(ObservedPage, title)

\* the read settles and its outcome is recorded
CheckStoreReplyObserved(i, read) == CheckStoreReplyAt(i, read, TRUE)

NextCacheRead ==
  \/ FetchUserProfile(ObservedPage)
  \/ \E title \in Titles : ObservedPathClick(title)
  \/ \E i \in 1..MaxObservedClicks, read \in StoreResults : CheckStoreReplyObserved(i, read)
  \/ \E i \in 1..MaxObservedClicks, outcome \in SkillOutcomes : SkillApiReply(i, outcome)
  \/ \E i \in 1..MaxObservedClicks : SkillApiUnreachable(i)
  \/ \E i \in 1..MaxObservedClicks, read \in StoreResults : SaveReadReply(i, read)
  \/ \E i \in 1..MaxObservedClicks, write \in StoreResults : SaveWriteReply(i, write)

(***************************************************************************)
(* generateSkillAnalysis: the handler on its own, with every shape of      *)
(* oracle output                                                           *)
(***************************************************************************)
AnalysisRequests ==
  [method : Methods, userProfile : {Undef, LoadedProfile},
   careerPath : {Undef, CareerPathOf("Path A")}]

\* req.body
AnalysisBody(req) ==
  Obj([userProfile |-> req.userProfile, careerPath |-> req.careerPath])

\* what the oracle may put in totalSkills / skillGap
SkillListValues == {Undef, Str("text")} \cup {SkillList(n) : n \in 0..MaxSkills}

AnalysisJsonValues ==
  {Null, Str("text")}
  \cup {Obj([brief |-> b, totalSkills |-> t, skillGap |-> g]) :
          b \in {Undef, Str(""), Str("brief one")},
          t \in SkillListValues, g \in SkillListValues}

AnalysisOutcomes ==
  {OracleFailure(k) : k \in OracleFailureKinds}
  \cup {OracleJson(v) : v \in AnalysisJsonValues}

\* part_000 lines 447-467: a request arrives; past the 405 / 400 answers the
\* handler calls callGeminiAPI, which makes its one fetch
GenerateSkillAnalysisRequest ==
  /\ analysisPc = "idle"
  /\ \E req \in AnalysisRequests :
       /\ analysisReq' = req
       /\ IF SkillHandlerCallsOracle(req.method, AnalysisBody(req))
            THEN /\ analysisPc' = "calling"
                 /\ analysisCalls' = analysisCalls + 1
                 /\ analysisRes' = NoResponse
            ELSE /\ analysisPc' = "responded"
                 /\ analysisRes' = SkillHandlerResult(req.method, AnalysisBody(req), NoOutcome)
                 /\ UNCHANGED analysisCalls
  /\ UNCHANGED analysisOracle
  /\ UNCHANGED notAnalysis

\* part_000 lines 410-445 and 467-479: the oracle call ends; the handler
\* answers 200 with the parsed analysis or 500
AnalysisOracleReply ==
  /\ analysisPc = "calling"
  /\ \E outcome \in AnalysisOutcomes :
       /\ analysisOracle' = outcome
       /\ analysisRes' =
            SkillHandlerResult(analysisReq.method, AnalysisBody(analysisReq), outcome)
  /\ analysisPc' = "responded"
  /\ UNCHANGED <<analysisReq, analysisCalls>>
  /\ UNCHANGED notAnalysis

\* the handler keeps nothing between requests
AnalysisNextRequest ==
  /\ analysisPc = "responded"
  /\ analysisPc' = "idle"
  /\ analysisReq' = NoRequest
  /\ analysisCalls' = 0
  /\ analysisOracle' = NoOutcome
  /\ analysisRes' = NoResponse
  /\ UNCHANGED notAnalysis

InitAnalysis ==
  /\ analysisReq = NoRequest
  /\ analysisPc = "idle"
  /\ analysisCalls = 0
  /\ analysisOracle = NoOutcome
  /\ analysisRes = NoResponse

NextAnalysis ==
  \/ GenerateSkillAnalysisRequest
  \/ AnalysisOracleReply
  \/ AnalysisNextRequest

(***************************************************************************)
(* generateProfile: transcript -> TraitProfile, the results flow of the    *)
(* game screen that calls it and stores the profile, and the advice page   *)
(* that loads a profile                                                    *)
(***************************************************************************)
\* a transcript entry as a client may send it: the game screen's prompt entry
\* (content is the response object), its response entry, or null
AiEntry == Obj([type |-> Str("ai"), content |-> Obj([narrative |-> Str("text")])])

UserEntry == Obj([type |-> Str("user"), content |-> Str("text")])

TranscriptEntries == {Null, AiEntry, UserEntry}

Transcripts == UNION {[1..n -> TranscriptEntries] : n \in 0..MaxTranscript}

\* the transcripts the game screen holds
GameTranscripts == UNION {[1..n -> {AiEntry, UserEntry}] : n \in 0..MaxTranscript}

ProfileRequests ==
  [method : Methods, userUid : {Undef, Str("uid")},
   conversationHistory : {Undef, Str("text")} \cup {Arr(h) : h \in Transcripts}]

\* generateProfile.ts lines 136-149: formatTranscriptForAnalysis throws a
\* TypeError on a null entry (entry.type) and on a prompt entry whose content
\* is null or undefined (entry.content.narrative)
FormatThrows(h) ==
  \E i \in 1..Len(h) :
    \/ AccessThrows(h[i])
    \/ /\ Get(h[i], "type") = Str("ai")
       /\ Get(h[i], "content").t # "string"
       /\ AccessThrows(Get(h[i], "content"))

\* what the oracle may return to the analysis prompt
ProfileJsonValues == {Null, Str("text")} \cup UserProfiles

ProfileOutcomes ==
  {OracleFailure(k) : k \in OracleFailureKinds}
  \cup {OracleJson(v) : v \in ProfileJsonValues}

\* generateProfile.ts lines 115-118: the structure check of callGeminiAPI
ValidProfile(v) ==
  /\ ~AccessThrows(v)
  /\ Truthy(Get(v, "coreMotivators"))
  /\ Truthy(Get(v, "problemSolvingStyle"))
  /\ Truthy(Get(v, "personalitySummary"))

\* generateProfile.ts lines 125-132: the fallback profile
FallbackProfile ==
  Obj([coreMotivators |-> Arr(<<Str("Personal Growth"), Str("Creative Expression")>>),
       problemSolvingStyle |-> Str("Adaptive & Thoughtful"),
       preferredWorkEnvironment |-> Str("Flexible & Collaborative"),
       keyAptitudes |-> Arr(<<Str("Critical Thinking"), Str("Communication"),
                              Str("Adaptability")>>),
       interestsAndPassions |-> Arr(<<Str("Technology"), Str("Problem Solving")>>),
       personalitySummary |-> Str("You demonstrate a balanced approach")])

\* a callGeminiAPI whose catch block rethrows: the handler answers 500
ProfileResultRethrow(outcome) ==
  IF outcome.kind = "json" /\ ValidProfile(outcome.value)
    THEN Response(200, outcome.value)
    ELSE Response(500, ErrorBody)

\* generateProfile.ts lines 71-134 and 175-180: callGeminiAPI returns the
\* parsed profile or, from its catch block, the fallback profile; the handler
\* answers 200 with it
ProfileResult(outcome) ==
  IF outcome.kind = "json" /\ ValidProfile(outcome.value)
    THEN Response(200, outcome.value)
    ELSE Response(200, FallbackProfile)

\* generateProfile.ts lines 151-175: a request arrives
GenerateProfileHandler(req) ==
  /\ profileReq' = req
  /\ IF req.method # "POST"
       THEN /\ profilePc' = "responded"
            /\ profileRes' = Response(405, ErrorBody)
            /\ UNCHANGED profileCalls
       ELSE IF ~Truthy(req.userUid)
         THEN /\ profilePc' = "responded"
              /\ profileRes' = Response(400, ErrorBody)
              /\ UNCHANGED profileCalls
         ELSE IF ~Truthy(req.conversationHistory) \/ ~IsArray(req.conversationHistory)
           THEN /\ profilePc' = "responded"
                /\ profileRes' = Response(400, ErrorBody)
                /\ UNCHANGED profileCalls
           ELSE IF FormatThrows(req.conversationHistory.items)
             THEN /\ profilePc' = "responded"
                  /\ profileRes' = Response(500, ErrorBody)
                  /\ UNCHANGED profileCalls
             ELSE /\ profilePc' = "calling"
                  /\ profileRes' = NoResponse
                  /\ profileCalls' = profileCalls + 1
  /\ UNCHANGED profileOracle

\* a request from any client, before the results flow of the game screen runs
GenerateProfileRequest ==
  /\ profilePc = "idle"
  /\ resultsPc = "none"
  /\ \E req \in ProfileRequests : GenerateProfileHandler(req)
  /\ UNCHANGED <<resultsPc, resultsProfile, transcriptDoc, userProfilesDoc>>
  /\ UNCHANGED <<userProfile, skillAnalysisCache, modal, skillDoc, clicks, skillCalls>>
  /\ UNCHANGED notProfile

\* part_002 lines 305-331 and 208-222: View Results is pressed; the
\* transcript document is written and, in parallel, generateUserProfile
\* posts the transcript to generateProfile
HandleViewResults ==
  /\ profilePc = "idle"
  /\ resultsPc = "none"
  /\ \E h \in GameTranscripts, write \in StoreResults :
       /\ transcriptDoc' =
            IF write = "ok"
              THEN [exists |-> TRUE,
                    data |-> Obj([userUid |-> Str("uid"), conversationHistory |-> Arr(h)])]
              ELSE transcriptDoc
       /\ GenerateProfileHandler([method |-> "POST", userUid |-> Str("uid"),
                                  conversationHistory |-> Arr(h)])
  /\ resultsPc' = "awaitProfile"
  /\ UNCHANGED <<resultsProfile, userProfilesDoc>>
  /\ UNCHANGED <<userProfile, skillAnalysisCache, modal, skillDoc, clicks, skillCalls>>
  /\ UNCHANGED notProfile

\* generateProfile.ts lines 80-134 and 175-180: the oracle call ends and the
\* handler answers
ProfileOracleReply ==
  /\ profilePc = "calling"
  /\ \E outcome \in ProfileOutcomes :
       /\ profileOracle' = outcome
       /\ profileRes' = ProfileResult(outcome)
  /\ profilePc' = "responded"
  /\ UNCHANGED <<profileReq, profileCalls>>
  /\ UNCHANGED <<resultsPc, resultsProfile, transcriptDoc, userProfilesDoc>>
  /\ UNCHANGED <<userProfile, skillAnalysisCache, modal, skillDoc, clicks, skillCalls>>
  /\ UNCHANGED notProfile

\* part_002 lines 224-238: the response reaches generateUserProfile, which
\* throws on a non-ok status and else builds the profile document
ProfileResponseArrives ==
  /\ resultsPc = "awaitProfile"
  /\ profilePc = "responded"
  /\ IF profileRes.status = 200
       THEN /\ resultsPc' = "saveProfile"
            /\ resultsProfile' = profileRes.body
       ELSE /\ resultsPc' = "failed"
            /\ UNCHANGED resultsProfile
  /\ UNCHANGED <<profileReq, profilePc, profileCalls, profileOracle, profileRes>>
  /\ UNCHANGED <<transcriptDoc, userProfilesDoc>>
  /\ UNCHANGED <<userProfile, skillAnalysisCache, modal, skillDoc, clicks, skillCalls>>
  /\ UNCHANGED notProfile

\* part_002 lines 232-238: const profileDocument
ProfileDocument(profileData) ==
  Obj([userUid |-> Str("uid"), createdAt |-> Str("timestamp"),
       lastUpdated |-> Str("timestamp"), gameVersion |-> Str("1.0"),
       profile |-> profileData])

\* part_002 lines 240-247: setDoc of userProfiles/{uid} takes effect, or
\* fails and generateUserProfile throws
SaveProfileReply ==
  /\ resultsPc = "saveProfile"
  /\ \E write \in StoreResults :
       IF write = "ok"
         THEN /\ userProfilesDoc' = [exists |-> TRUE, data |-> ProfileDocument(resultsProfile)]
              /\ resultsPc' = "profileSaved"
         ELSE /\ resultsPc' = "failed"
              /\ UNCHANGED userProfilesDoc
  /\ UNCHANGED <<profileReq, profilePc, profileCalls, profileOracle, profileRes>>
  /\ UNCHANGED <<resultsProfile, transcriptDoc>>
  /\ UNCHANGED <<userProfile, skillAnalysisCache, modal, skillDoc, clicks, skillCalls>>
  /\ UNCHANGED notProfile

\* part_002 lines 334-345: handleViewResults hands the profile to
\* generateCareerAdvice once the transcript write and the profile are done;
\* lines 265-268: the request it posts to generateCareerAdvice
HandedToCareer == resultsPc = "profileSaved" /\ transcriptDoc.exists

CareerRequestOf(profileData) ==
  [method |-> "POST", userUid |-> Str("uid"), userProfile |-> profileData]

\* the handler keeps nothing between requests
ProfileNextRequest ==
  /\ profilePc = "responded"
  /\ resultsPc = "none"
  /\ profilePc' = "idle"
  /\ profileReq' = NoRequest
  /\ profileCalls' = 0
  /\ profileOracle' = NoOutcome
  /\ profileRes' = NoResponse
  /\ UNCHANGED <<resultsPc, resultsProfile, transcriptDoc, userProfilesDoc>>
  /\ UNCHANGED <<userProfile, skillAnalysisCache, modal, skillDoc, clicks, skillCalls>>
  /\ UNCHANGED notProfile

InitProfile ==
  /\ profileReq = NoRequest
  /\ profilePc = "idle"
  /\ profileCalls = 0
  /\ profileOracle = NoOutcome
  /\ profileRes = NoResponse
  /\ resultsPc = "none"
  /\ resultsProfile = Undef
  /\ transcriptDoc = [exists |-> FALSE, data |-> Undef]
  /\ userProfilesDoc = [exists |-> FALSE, data |-> Undef]

NextProfile ==
  \/ GenerateProfileRequest
  \/ HandleViewResults
  \/ ProfileOracleReply
  \/ ProfileResponseArrives
  \/ SaveProfileReply
  \/ \E page \in Pages : FetchUserProfile(page)
  \/ ProfileNextRequest

(***************************************************************************)
(* GameScreen: the quiz client, with the startGame / continueGame handlers *)
(* behind its requests                                                     *)
(***************************************************************************)
\* a fetch of the client to its own API resolves or rejects
NetworkResults == {"ok", "error"}

\* the options the user toggles (option ids are the indexes "0", "1", ...)
OptionIds == {0, 1}

\* an oracle response one of whose options is the empty string
BlankOptionScene ==
  Obj([narrative |-> Str("text"), questionType |-> Str("single-choice"),
       options |-> Arr(<<Str(""), Str("option")>>)])

\* how the oracle call behind the client's startGame request ends
GameOutcomes == TurnOutcomes \cup {OracleJson(BlankOptionScene)}

\* startGame.ts handler lines 163-198 as a function of the request, the
\* store read and the oracle outcome
StartGameAnswer(req, read, outcome) ==
  IF req.method # "POST" THEN Response(405, ErrorBody)
  ELSE IF ~Truthy(req.userUid) THEN Response(400, ErrorBody)
  ELSE IF ~Truthy(IF Truthy(req.userData) THEN req.userData ELSE getUserData(read))
    THEN Response(404, ErrorBody)
    ELSE StartResult(outcome)

\* part_001 handler lines 206-244 as a function of the request and the
\* oracle outcome
ContinueGameAnswer(req, outcome) ==
  IF req.method # "POST" THEN Response(405, ErrorBody)
  ELSE IF ~ContinueBodyValid(req) THEN Response(400, ErrorBody)
  ELSE ContinueResult(outcome, TurnNumber(req.conversationHistory.items))

\* part_002 lines 82-85 / 156-159: gameData.options?.map(...) throws when
\* options is neither absent nor an array, or holds a null option
ProcessThrows(gameData) ==
  LET o == Get(gameData, "options") IN
    /\ ~AccessThrows(o)
    /\ \/ ~IsArray(o)
       \/ \E i \in 1..Len(o.items) : o.items[i].t # "string" /\ AccessThrows(o.items[i])

\* gameData.options?.map(opt => typeof opt === 'string' ? opt : opt.text) || []
ProcessedOptions(o) ==
  IF AccessThrows(o) THEN Arr(<<>>)
  ELSE Arr([i \in 1..Len(o.items) |->
              IF o.items[i].t = "string" THEN o.items[i] ELSE Get(o.items[i], "text")])

\* {...gameData, options: ...}
ProcessedGameData(gameData) ==
  Obj([k \in DOMAIN gameData.f \cup {"options"} |->
         IF k = "options" THEN ProcessedOptions(Get(gameData, "options"))
                          ELSE gameData.f[k]])

\* part_002 lines 88-96 / 164-172: the prompt entry put in the transcript
PromptEntry(scene) ==
  Obj([type |-> Str("ai"),
       content |-> Obj([narrative |-> Get(scene, "narrative"),
                        questionType |-> Get(scene, "questionType"),
                        options |-> Get(scene, "options")]),
       timestamp |-> Str("timestamp")])

\* part_002 lines 101-111: the scene shown when startGame fails
StartSceneFallback ==
  Obj([narrative |-> Str("client welcome"), questionType |-> Str("multi-choice"),
       question |-> Str("which activities"), options |-> FourOptionTexts])

\* part_002 lines 186-189: the scene shown when continueGame fails
ContinueSceneFallback ==
  Obj([narrative |-> Str("client finale"), questionType |-> Str("finale")])

\* part_002 lines 372 and 487: the options and the Continue button are rendered
OptionsShown ==
  /\ ~isLoading
  /\ ~isGameFinished
  /\ Truthy(Get(currentScene, "options"))

\* currentScene?.options?.[parseInt(optionId)]
OptionAt(scene, optionId) ==
  LET o == Get(scene, "options") IN
    IF IsArray(o) /\ optionId + 1 <= Len(o.items) THEN o.items[optionId + 1] ELSE Undef

\* part_002 lines 121-123 / 132: the selected option texts, .filter(Boolean)
SelectedTexts(scene, selected) ==
  SelectSeq([i \in 1..Len(selected) |-> OptionAt(scene, selected[i])], Truthy)

\* texts.join(', ')
RECURSIVE JoinTexts(_)
JoinTexts(texts) ==
  IF Len(texts) = 0 THEN ""
  ELSE IF Len(texts) = 1 THEN texts[1].s
  ELSE texts[1].s \o ", " \o JoinTexts(Tail(texts))

\* part_002 lines 129-134: the response entry put in the transcript
ResponseEntry(scene, selected) ==
  Obj([type |-> Str("user"),
       content |-> Str(JoinTexts(SelectedTexts(scene, selected))),
       selectedOptions |-> Arr(SelectedTexts(scene, selected)),
       timestamp |-> Str("timestamp")])

\* a toggle that treats every scene as multi-choice
ToggleOptionAlwaysMulti(scene, selected, optionId) ==
  IF \E i \in 1..Len(selected) : selected[i] = optionId
    THEN SelectSeq(selected, LAMBDA id : id # optionId)
    ELSE Append(selected, optionId)

\* part_002 lines 196-206: handleOptionToggle
ToggleOption(scene, selected, optionId) ==
  IF Get(scene, "questionType") = Str("single-choice") THEN <<optionId>>
  ELSE IF \E i \in 1..Len(selected) : selected[i] = optionId
    THEN SelectSeq(selected, LAMBDA id : id # optionId)
    ELSE Append(selected, optionId)

\* part_002 lines 52-115: the startGame call made on mount settles
StartGameSettles ==
  /\ isLoading
  /\ \E clientRead \in StoreReadResults, serverRead \in StoreReadResults,
        net \in NetworkResults, outcome \in GameOutcomes :
       LET userData == IF clientRead = "exists" THEN IntakeData ELSE Null
           req == [method |-> "POST", userUid |-> Str("uid"), userData |-> userData]
           res == StartGameAnswer(req, serverRead, outcome)
           failed == \/ clientRead = "error"
                     \/ net = "error"
                     \/ res.status # 200
                     \/ ProcessThrows(res.body)
       IN IF failed
            THEN /\ currentScene' = StartSceneFallback
                 /\ startOutcome' = "failed"
                 /\ UNCHANGED <<conversationHistory, questionCount>>
            ELSE /\ currentScene' = ProcessedGameData(res.body)
                 /\ conversationHistory' = <<PromptEntry(ProcessedGameData(res.body))>>
                 /\ questionCount' = 1
                 /\ startOutcome' = "ok"
  /\ isLoading' = FALSE
  /\ UNCHANGED <<isGameFinished, selectedOptions, isSubmitting, newConversationHistory,
                 requestedTurns, pendingCalls>>
  /\ UNCHANGED notGame

\* part_002 lines 196-206 and 497-510: an option card is clicked
HandleOptionToggle ==
  /\ OptionsShown
  /\ \E optionId \in OptionIds :
       /\ optionId < Len(Get(currentScene, "options").items)
       /\ selectedOptions' = ToggleOption(currentScene, selectedOptions, optionId)
  /\ UNCHANGED <<isLoading, currentScene, conversationHistory, isGameFinished,
                 questionCount, isSubmitting, newConversationHistory, requestedTurns,
                 startOutcome, pendingCalls>>
  /\ UNCHANGED notGame

\* part_002 lines 117-135: what a continueGame call closes over: the scene
\* and the selection of the render it was started from, and the transcript
\* it posts
PendingCall(posted) ==
  [currentScene |-> currentScene, selectedOptions |-> selectedOptions,
   newConversationHistory |-> posted]

\* a continueGame that would post, and later store, the new response alone
ContinueGameReplacing ==
  /\ OptionsShown
  /\ Len(selectedOptions) > 0
  /\ ~isSubmitting
  /\ Len(requestedTurns) < MaxExchanges
  /\ isSubmitting' = TRUE
  /\ newConversationHistory' = <<ResponseEntry(currentScene, selectedOptions)>>
  /\ requestedTurns' = Append(requestedTurns, TurnNumber(newConversationHistory'))
  /\ pendingCalls' = Append(pendingCalls, PendingCall(newConversationHistory'))
  /\ UNCHANGED <<isLoading, currentScene, conversationHistory, isGameFinished,
                 selectedOptions, questionCount, startOutcome>>
  /\ UNCHANGED notGame

\* a continueGame that could be started while a submission is pending
ContinueGameUnguarded ==
  /\ OptionsShown
  /\ Len(selectedOptions) > 0
  /\ Len(requestedTurns) < MaxExchanges
  /\ isSubmitting' = TRUE
  /\ newConversationHistory' =
       Append(conversationHistory, ResponseEntry(currentScene, selectedOptions))
  /\ requestedTurns' = Append(requestedTurns, TurnNumber(newConversationHistory'))
  /\ pendingCalls' = Append(pendingCalls, PendingCall(newConversationHistory'))
  /\ UNCHANGED <<isLoading, currentScene, conversationHistory, isGameFinished,
                 selectedOptions, questionCount, startOutcome>>
  /\ UNCHANGED notGame

\* part_002 lines 117-147 and 544-545: Continue is pressed (the button is
\* disabled without a selection and while a submission is pending); the
\* transcript with the response appended is posted to continueGame, whose
\* handler computes the turn number from it (part_001 lines 224-225)
ContinueGame ==
  /\ OptionsShown
  /\ Len(selectedOptions) > 0
  /\ ~isSubmitting
  /\ Len(requestedTurns) < MaxExchanges
  /\ isSubmitting' = TRUE
  /\ newConversationHistory' =
       Append(conversationHistory, ResponseEntry(currentScene, selectedOptions))
  /\ requestedTurns' = Append(requestedTurns, TurnNumber(newConversationHistory'))
  /\ pendingCalls' = Append(pendingCalls, PendingCall(newConversationHistory'))
  /\ UNCHANGED <<isLoading, currentScene, conversationHistory, isGameFinished,
                 selectedOptions, questionCount, startOutcome>>
  /\ UNCHANGED notGame

\* a settling continueGame that finishes the game on any prompt received
ContinueGameSettlesFinishing ==
  /\ isSubmitting
  /\ \E net \in NetworkResults, outcome \in TurnOutcomes :
       LET req == [method |-> "POST", userUid |-> Str("uid"),
                   conversationHistory |-> Arr(newConversationHistory)]
           res == ContinueGameAnswer(req, outcome)
           failed == net = "error" \/ res.status # 200 \/ ProcessThrows(res.body)
           scene == ProcessedGameData(res.body)
       IN IF failed
            THEN /\ currentScene' = ContinueSceneFallback
                 /\ isGameFinished' = TRUE
                 /\ UNCHANGED <<conversationHistory, selectedOptions, questionCount>>
            ELSE /\ conversationHistory' = Append(newConversationHistory, PromptEntry(scene))
                 /\ currentScene' = scene
                 /\ selectedOptions' = <<>>
                 /\ questionCount' = questionCount + 1
                 /\ isGameFinished' =
                      TRUE
  /\ isSubmitting' = FALSE
  /\ newConversationHistory' = <<>>
  /\ pendingCalls' = Tail(pendingCalls)
  /\ UNCHANGED <<isLoading, requestedTurns, startOutcome>>
  /\ UNCHANGED notGame

\* a settling continueGame that sets the counter to the transcript's length
ContinueGameSettlesCountingEntries ==
  /\ isSubmitting
  /\ \E net \in NetworkResults, outcome \in TurnOutcomes :
       LET req == [method |-> "POST", userUid |-> Str("uid"),
                   conversationHistory |-> Arr(newConversationHistory)]
           res == ContinueGameAnswer(req, outcome)
           failed == net = "error" \/ res.status # 200 \/ ProcessThrows(res.body)
           scene == ProcessedGameData(res.body)
       IN IF failed
            THEN /\ currentScene' = ContinueSceneFallback
                 /\ isGameFinished' = TRUE
                 /\ UNCHANGED <<conversationHistory, selectedOptions, questionCount>>
            ELSE /\ conversationHistory' = Append(newConversationHistory, PromptEntry(scene))
                 /\ currentScene' = scene
                 /\ selectedOptions' = <<>>
                 /\ questionCount' = Len(conversationHistory')
                 /\ isGameFinished' =
                      (isGameFinished \/ Get(scene, "questionType") = Str("finale"))
  /\ isSubmitting' = FALSE
  /\ newConversationHistory' = <<>>
  /\ pendingCalls' = Tail(pendingCalls)
  /\ UNCHANGED <<isLoading, requestedTurns, startOutcome>>
  /\ UNCHANGED notGame

\* part_002 lines 149-193: the continueGame call in flight settles
ContinueGameSettles ==
  /\ isSubmitting
  /\ \E net \in NetworkResults, outcome \in TurnOutcomes :
       LET req == [method |-> "POST", userUid |-> Str("uid"),
                   conversationHistory |-> Arr(newConversationHistory)]
           res == ContinueGameAnswer(req, outcome)
           failed == net = "error" \/ res.status # 200 \/ ProcessThrows(res.body)
           scene == ProcessedGameData(res.body)
       IN IF failed
            THEN /\ currentScene' = ContinueSceneFallback
                 /\ isGameFinished' = TRUE
                 /\ UNCHANGED <<conversationHistory, selectedOptions, questionCount>>
            ELSE /\ conversationHistory' = Append(newConversationHistory, PromptEntry(scene))
                 /\ currentScene' = scene
                 /\ selectedOptions' = <<>>
                 /\ questionCount' = questionCount + 1
                 /\ isGameFinished' =
                      (isGameFinished \/ Get(scene, "questionType") = Str("finale"))
  /\ isSubmitting' = FALSE
  /\ newConversationHistory' = <<>>
  /\ pendingCalls' = Tail(pendingCalls)
  /\ UNCHANGED <<isLoading, requestedTurns, startOutcome>>
  /\ UNCHANGED notGame

\* part_002 lines 37-50: the component's initial state, startGame running
InitGame ==
  /\ isLoading = TRUE
  /\ currentScene = Null
  /\ conversationHistory = <<>>
  /\ isGameFinished = FALSE
  /\ selectedOptions = <<>>
  /\ questionCount = 0
  /\ isSubmitting = FALSE
  /\ newConversationHistory = <<>>
  /\ requestedTurns = <<>>
  /\ startOutcome = "pending"
  /\ pendingCalls = <<>>

NextGame ==
  \/ StartGameSettles
  \/ HandleOptionToggle
  \/ ContinueGame
  \/ ContinueGameSettles

(***************************************************************************)
(* The fallback of continueGame's callGeminiAPI as a function of its       *)
(* inputs: failed calls with any turn number, transcript and error         *)
(***************************************************************************)
NoFallbackCall == [turn |-> 0, outcome |-> NoOutcome, history |-> <<>>]

NoFallbackPrev == [turn |-> 0, output |-> Undef]

\* two transcripts for each turn number: prompts only, and prompts each
\* followed by a response
PromptsOnly(turn) == [i \in 1..(turn - 1) |-> Entry("ai")]

PromptsAndResponses(turn) ==
  [i \in 1..(2 * (turn - 1)) |-> IF i % 2 = 1 THEN Entry("ai") ELSE Entry("user")]

FallbackTranscripts(turn) == {PromptsOnly(turn), PromptsAndResponses(turn)}

\* ways the try block of callGeminiAPI ends in its catch block: the four
\* failures of the call, a null JSON value, JSON without a questionType
FallbackTriggers ==
  {OracleFailure(k) : k \in OracleFailureKinds}
  \cup {OracleJson(Null),
        OracleJson(Obj([narrative |-> Str("text"), questionType |-> Undef,
                        options |-> Arr(<<>>)]))}

\* part_001 lines 89-197: callGeminiAPI(prompt, currentTurn) is called for a
\* transcript and fails
FallbackCall ==
  /\ fallbackCalls < MaxFallbackCalls
  /\ \E turn \in 1..MaxTurn :
       \E h \in FallbackTranscripts(turn), outcome \in FallbackTriggers :
         /\ fallbackCall' = [turn |-> TurnNumber(h), outcome |-> outcome, history |-> h]
         /\ fallbackOutput' = ContinueResult(outcome, TurnNumber(h)).body
  /\ fallbackPrev' = [turn |-> fallbackCall.turn, output |-> fallbackOutput]
  /\ fallbackCalls' = fallbackCalls + 1
  /\ UNCHANGED notFallback

InitFallback ==
  /\ fallbackCall = NoFallbackCall
  /\ fallbackOutput = Undef
  /\ fallbackPrev = NoFallbackPrev
  /\ fallbackCalls = 0

NextFallback == FallbackCall

(***************************************************************************)
(* The five stage handlers behind one front door: a request for any stage  *)
(* arrives when no other is being served                                   *)
(***************************************************************************)
StagesIdle ==
  /\ careerPc = "idle"
  /\ turnPc = "idle"
  /\ analysisPc = "idle"
  /\ profilePc = "idle"

StageCareerRequest == StagesIdle /\ GenerateCareerAdviceRequest

StageContinueRequest == StagesIdle /\ ContinueGameRequest

StageStartRequest == StagesIdle /\ StartGameRequest

StageAnalysisRequest == StagesIdle /\ GenerateSkillAnalysisRequest

StageProfileRequest == StagesIdle /\ GenerateProfileRequest

NextStages ==
  \/ StageCareerRequest
  \/ CareerOracleReply
  \/ CareerBackoffElapsed
  \/ CareerNextRequest
  \/ StageContinueRequest
  \/ ContinueGameOracleReply
  \/ StageStartRequest
  \/ StartGameOracleReply
  \/ TurnNextRequest
  \/ StageAnalysisRequest
  \/ AnalysisOracleReply
  \/ AnalysisNextRequest
  \/ StageProfileRequest
  \/ ProfileOracleReply
  \/ ProfileNextRequest

(***************************************************************************)
(* The handlers serving the requests of two users concurrently: one        *)
(* invocation per user at a time, each with its own locals; the modules    *)
(* hold constants only (API key, model name, prompts)                      *)
(***************************************************************************)
Users == {"user A", "user B"}

ServerStages == {"startGame", "continueGame", "generateProfile", "generateCareerAdvice"}

\* the turn numbers of the transcripts sent to continueGame
ServerTurns == {2, 5, 8}

CompleteProfile ==
  Obj([field \in requiredFields |->
         IF field \in ListFields THEN Arr(<<Str("text")>>) ELSE Str("text")])

\* the request bodies user u sends to a stage
ServerRequests(u, stage) ==
  CASE stage = "startGame" ->
         [method : Methods, userUid : {Undef, Str(u)}, userData : {Undef, IntakeData}]
    [] stage = "continueGame" ->
         [method : Methods, userUid : {Undef, Str(u)},
          conversationHistory :
            {Undef} \cup {Arr(PromptsAndResponses(turn)) : turn \in ServerTurns}]
    [] stage = "generateProfile" ->
         [method : Methods, userUid : {Undef, Str(u)},
          conversationHistory : {Undef, Arr(<<AiEntry, UserEntry>>)}]
    [] stage = "generateCareerAdvice" ->
         [method : Methods, userUid : {Undef, Str(u)},
          userProfile : {Undef, CompleteProfile}]

\* a response the stage's validation accepts
AcceptedValue(stage) ==
  CASE stage \in {"startGame", "continueGame"} ->
         Obj([narrative |-> Str("text"), questionType |-> Str("single-choice"),
              options |-> FourOptionTexts])
    [] stage = "generateProfile" -> CompleteProfile
    [] stage = "generateCareerAdvice" ->
         Obj([direction |-> Str("text"),
              paths |-> Arr([i \in 1..RequiredPaths |->
                               Obj([title |-> Str("text"), description |-> Str("text")])])])

\* the ways an oracle call of the stage ends
ServerOutcomes(stage) ==
  {OracleFailure("networkError"), OracleFailure("nonJson"), OracleJson(Null),
   OracleJson(AcceptedValue(stage))}

NoInvocation ==
  [stage |-> "none", req |-> NoRequest, read |-> "none", pc |-> "idle",
   attempts |-> 0, replies |-> <<>>, res |-> NoResponse]

\* startGame.ts lines 177-180: the handler reads users/{uid}
ServerReadsStore(stage, req) ==
  /\ stage = "startGame"
  /\ req.method = "POST"
  /\ Truthy(req.userUid)
  /\ ~Truthy(req.userData)

\* the handler gets past its 405 / 400 / 404 / 500 answers to its oracle call
ServerCallsOracle(stage, req, read) ==
  /\ req.method = "POST"
  /\ CASE stage = "startGame" ->
            /\ Truthy(req.userUid)
            /\ Truthy(IF Truthy(req.userData) THEN req.userData ELSE getUserData(read))
       [] stage = "continueGame" -> ContinueBodyValid(req)
       [] stage = "generateProfile" ->
            /\ Truthy(req.userUid)
            /\ Truthy(req.conversationHistory)
            /\ IsArray(req.conversationHistory)
            /\ ~FormatThrows(req.conversationHistory.items)
       [] stage = "generateCareerAdvice" -> CareerBodyValid(req)

\* the answer of a handler that does not get to its oracle call
ServerEarlyAnswer(stage, req, read) ==
  IF req.method # "POST" THEN Response(405, ErrorBody)
  ELSE CASE stage = "startGame" -> StartGameAnswer(req, read, NoOutcome)
         [] stage = "continueGame" -> Response(400, ErrorBody)
         [] stage = "generateProfile" ->
              IF /\ Truthy(req.userUid)
                 /\ Truthy(req.conversationHistory)
                 /\ IsArray(req.conversationHistory)
                THEN Response(500, ErrorBody)
                ELSE Response(400, ErrorBody)
         [] stage = "generateCareerAdvice" -> Response(400, ErrorBody)

\* a counter kept at module level, shared by the invocations
InvocationAttemptsShared(u) ==
  CHOOSE a \in {invocations[v].attempts : v \in Users} :
    \A v \in Users : invocations[v].attempts <= a

\* part_000 line 142: let attempts = 0, a local of each call of
\* callGeminiAPIWithGrounding
InvocationAttempts(u) == invocations[u].attempts

\* part_000 lines 145-157 and 255: the loop head of the invocation
ServerLoopHead(inv, a) ==
  IF LoopContinues(a)
    THEN [inv EXCEPT !.attempts = a + 1, !.pc = "calling"]
    ELSE [inv EXCEPT !.pc = "responded", !.res = Response(500, ErrorBody)]

\* a request of user u arrives and its handler runs up to its first await
ServerRequest(u) ==
  /\ invocations[u].pc = "idle"
  /\ \E stage \in ServerStages, read \in StoreReadResults :
       \E req \in ServerRequests(u, stage) :
         LET inv == [NoInvocation EXCEPT
                       !.stage = stage, !.req = req,
                       !.read = IF ServerReadsStore(stage, req) THEN read ELSE "none"]
         IN invocations' =
              [invocations EXCEPT ![u] =
                 IF ~ServerCallsOracle(stage, req, read)
                   THEN [inv EXCEPT !.pc = "responded",
                                    !.res = ServerEarlyAnswer(stage, req, read)]
                   ELSE IF stage = "generateCareerAdvice"
                     THEN ServerLoopHead(inv, 0)
                     ELSE [inv EXCEPT !.pc = "calling"]]
  /\ UNCHANGED notServer

\* the oracle call of user u's invocation ends and the handler runs on
ServerOracleReply(u) ==
  /\ invocations[u].pc = "calling"
  /\ \E outcome \in ServerOutcomes(invocations[u].stage) :
       LET inv == [invocations[u] EXCEPT !.replies = Append(@, outcome)]
           stage == inv.stage
           answered(res) == [inv EXCEPT !.pc = "responded", !.res = res]
       IN invocations' =
            [invocations EXCEPT ![u] =
               CASE stage = "startGame" -> answered(StartResult(outcome))
                 [] stage = "continueGame" ->
                      answered(ContinueResult(outcome, TurnNumber(inv.req.conversationHistory.items)))
                 [] stage = "generateProfile" -> answered(ProfileResult(outcome))
                 [] stage = "generateCareerAdvice" ->
                      IF AttemptSucceeds(outcome)
                        THEN answered(Response(200, outcome.value))
                      ELSE IF IsFinalAttempt(InvocationAttempts(u))
                        THEN answered(Response(200, FallbackCareerAdvice))
                      ELSE IF WaitsBeforeRetry(InvocationAttempts(u))
                        THEN [inv EXCEPT !.pc = "backoff"]
                        ELSE ServerLoopHead(inv, InvocationAttempts(u))]
  /\ UNCHANGED notServer

\* part_000 line 249: the backoff timer of user u's invocation fires
ServerBackoffElapsed(u) ==
  /\ invocations[u].pc = "backoff"
  /\ invocations' =
       [invocations EXCEPT ![u] = ServerLoopHead(invocations[u], InvocationAttempts(u))]
  /\ UNCHANGED notServer

\* the response is sent; the invocation and its locals are gone
ServerNextRequest(u) ==
  /\ invocations[u].pc = "responded"
  /\ invocations' = [invocations EXCEPT ![u] = NoInvocation]
  /\ UNCHANGED notServer

InitServer == invocations = [u \in Users |-> NoInvocation]

NextServer ==
  \/ \E u \in Users : ServerRequest(u)
  \/ \E u \in Users : ServerOracleReply(u)
  \/ \E u \in Users : ServerBackoffElapsed(u)
  \/ \E u \in Users : ServerNextRequest(u)

(***************************************************************************)
(* GameScreen: the results flow, from View Results to the advice page,     *)
(* with the generateProfile and generateCareerAdvice handlers behind its   *)
(* requests                                                                *)
(***************************************************************************)
\* part_002 line 252: const maxAttempts of the client's generateCareerAdvice
clientMaxAttempts == 3

\* part_002 line 294: the wait before the next attempt, in ms
RetryDelayMs == 2000

\* a profile that passes the structure check of generateProfile and lacks a
\* field the career handler requires
PartialProfile ==
  Obj([field \in requiredFields |->
         IF field = "keyAptitudes" THEN Undef
         ELSE IF field \in ListFields THEN Arr(<<Str("text")>>) ELSE Str("text")])

\* how the oracle call behind the flow's generateProfile request ends
ViewProfileOutcomes ==
  {OracleFailure("networkError"), OracleJson(CompleteProfile), OracleJson(PartialProfile)}

\* the transcripts the flow is started with
ViewTranscripts == {<<>>, <<AiEntry, UserEntry, AiEntry>>}

\* generateProfile.ts handler lines 151-180 as a function of the request and
\* the oracle outcome
ProfileAnswer(req, outcome) ==
  IF req.method # "POST" THEN Response(405, ErrorBody)
  ELSE IF ~Truthy(req.userUid) THEN Response(400, ErrorBody)
  ELSE IF ~Truthy(req.conversationHistory) \/ ~IsArray(req.conversationHistory)
    THEN Response(400, ErrorBody)
  ELSE IF FormatThrows(req.conversationHistory.items) THEN Response(500, ErrorBody)
  ELSE ProfileResult(outcome)

\* part_000 handler lines 258-301 as a function of the request: past its
\* checks the handler answers 200, with the oracle's advice or the fallback
CareerAnswer(req) ==
  IF req.method # "POST" THEN Response(405, ErrorBody)
  ELSE IF ~CareerBodyValid(req) THEN Response(400, ErrorBody)
  ELSE Response(200, FallbackCareerAdvice)

\* part_002 lines 314-325: const transcript
TranscriptDocument(h) ==
  Obj([userUid |-> Str("uid"), completedAt |-> Str("timestamp"),
       lastUpdated |-> Str("timestamp"), conversationHistory |-> Arr(h),
       metadata |-> Obj([totalQuestions |-> Str("count"), gameVersion |-> Str("1.0"),
                         totalResponses |-> Str("count")])])

\* part_002 lines 277-283: const careerAdviceDocument
CareerAdviceDocument(data) ==
  Obj([userUid |-> Str("uid"), createdAt |-> Str("timestamp"),
       lastUpdated |-> Str("timestamp"), direction |-> Get(data, "direction"),
       paths |-> Get(data, "paths")])

\* one run of handleViewResults
NewView(h) ==
  [pc |-> "awaitTranscript", history |-> h,
   transcriptPromise |-> "pending", profilePromise |-> "fetching",
   profileData |-> Undef, advicePc |-> "none", attempts |-> 0,
   statuses |-> <<>>, waits |-> <<>>, adviceData |-> Undef,
   wroteTranscript |-> FALSE, wroteProfile |-> FALSE, wroteAdvice |-> FALSE,
   alert |-> "none", navigated |-> FALSE]

\* part_002 lines 255-265: the loop head of generateCareerAdvice, attempts++
\* and the fetch of one attempt
AdviceLoopHead(v) == [v EXCEPT !.advicePc = "fetching", !.attempts = v.attempts + 1]

\* part_002 lines 364-367 with an alert of one of the catch blocks: the run
\* ends without navigation
EndWithAlert(v, alert) == [v EXCEPT !.pc = "ended", !.alert = alert]

\* part_002 lines 289-300 and 347-349: the catch block of an attempt: a wait
\* before the next attempt, or the rethrow that handleViewResults catches
AdviceCatch(v) ==
  IF v.attempts < clientMaxAttempts
    THEN [v EXCEPT !.advicePc = "waiting", !.waits = Append(v.waits, RetryDelayMs)]
    ELSE EndWithAlert([v EXCEPT !.advicePc = "thrown"], "career")

\* part_002 lines 334-362: await profilePromise resumes once the promise is
\* settled: the career advice is started with the profile, or the inner catch
\* block alerts
AfterProfileSettles(v) ==
  IF v.profilePromise = "fulfilled"
    THEN AdviceLoopHead([v EXCEPT !.pc = "awaitCareer"])
    ELSE IF v.profilePromise = "rejected"
      THEN EndWithAlert(v, "profile")
      ELSE v

\* the run is suspended in handleViewResults
ViewRunning(v) == v.pc # "ended"

\* the flags after a step that leaves the latest run as v: isSavingResults is
\* reset in the outer finally, isGeneratingCareerAdvice is set before the
\* career advice and reset in the inner finally
FlagsAfter(v) ==
  /\ isSavingResults' = ViewRunning(v)
  /\ isGeneratingCareerAdvice' = (v.pc = "awaitCareer")

\* the button is rendered until the advice page is navigated to
OnGameScreen == \A i \in 1..Len(views) : ~views[i].navigated

\* part_002 lines 305-331 and 606-607: View Results is pressed (the button is
\* disabled while a run is saving or generating); without a user uid the run
\* ends in the outer catch block, else the transcript write and
\* generateUserProfile are started
HandleViewResultsStart ==
  /\ OnGameScreen
  /\ ~isSavingResults
  /\ ~isGeneratingCareerAdvice
  /\ Len(views) < MaxViews
  /\ \E h \in ViewTranscripts, authenticated \in BOOLEAN :
       LET v == IF authenticated
                  THEN NewView(h)
                  ELSE EndWithAlert([NewView(h) EXCEPT !.transcriptPromise = "none",
                                                       !.profilePromise = "none"],
                                    "transcript")
       IN /\ views' = Append(views, v)
          /\ FlagsAfter(v)
  /\ UNCHANGED resultDocs
  /\ UNCHANGED notView

\* part_002 lines 328-333 and 359-363: setDoc of gameTranscripts/{uid} takes
\* effect and the run goes on to the profile, or fails and the outer catch
\* block alerts
TranscriptSaveSettles(i) ==
  /\ i \in 1..Len(views)
  /\ views[i].transcriptPromise = "pending"
  /\ \E write \in StoreResults :
       LET v == views[i]
           w == IF write = "ok"
                  THEN AfterProfileSettles(
                         [v EXCEPT !.transcriptPromise = "fulfilled",
                                   !.wroteTranscript = TRUE, !.pc = "awaitProfile"])
                  ELSE EndWithAlert([v EXCEPT !.transcriptPromise = "rejected"],
                                    "transcript")
       IN /\ views' = [views EXCEPT ![i] = w]
          /\ FlagsAfter(w)
          /\ resultDocs' = IF write = "ok"
                             THEN [resultDocs EXCEPT
                                     !.gameTranscripts = TranscriptDocument(v.history)]
                             ELSE resultDocs
  /\ UNCHANGED notView

\* the run's await profilePromise resumes if the run is waiting there
ProfileSettled(i, v) ==
  LET w == IF v.pc = "awaitProfile" THEN AfterProfileSettles(v) ELSE v IN
    /\ views' = [views EXCEPT ![i] = w]
    /\ IF i = Len(views) /\ ViewRunning(views[i])
         THEN FlagsAfter(w)
         ELSE UNCHANGED <<isSavingResults, isGeneratingCareerAdvice>>

\* part_002 lines 213-229: the response of generateProfile arrives, or the
\* fetch rejects; generateUserProfile throws on a non-ok status
ProfileFetchSettles(i) ==
  /\ i \in 1..Len(views)
  /\ views[i].profilePromise = "fetching"
  /\ \E net \in NetworkResults, outcome \in ViewProfileOutcomes :
       LET v == views[i]
           res == ProfileAnswer([method |-> "POST", userUid |-> Str("uid"),
                                 conversationHistory |-> Arr(v.history)], outcome)
       IN IF net = "ok" /\ res.status = 200
            THEN ProfileSettled(i, [v EXCEPT !.profilePromise = "saving",
                                             !.profileData = res.body])
            ELSE ProfileSettled(i, [v EXCEPT !.profilePromise = "rejected"])
  /\ UNCHANGED resultDocs
  /\ UNCHANGED notView

\* a generateUserProfile that would return the profile although its write
\* failed
ProfilePromiseAfterSaveSwallowing(write) == "fulfilled"

\* part_002 lines 240-247: generateUserProfile returns once setDoc has
\* resolved and rethrows when it fails
ProfilePromiseAfterSave(write) == IF write = "ok" THEN "fulfilled" ELSE "rejected"

\* part_002 lines 231-247: setDoc of userProfiles/{uid} takes effect or fails
ProfileSaveSettles(i) ==
  /\ i \in 1..Len(views)
  /\ views[i].profilePromise = "saving"
  /\ \E write \in StoreResults :
       LET v == views[i] IN
         /\ ProfileSettled(i, [v EXCEPT !.profilePromise = ProfilePromiseAfterSave(write),
                                        !.wroteProfile = (write = "ok")])
         /\ resultDocs' = IF write = "ok"
                            THEN [resultDocs EXCEPT
                                    !.userProfiles = ProfileDocument(v.profileData)]
                            ELSE resultDocs
  /\ UNCHANGED notView

\* part_002 lines 260-274 and 289-300: the response of generateCareerAdvice
\* arrives, or the fetch rejects (status 0); every status but 200 is thrown
\* into the attempt's catch block
AdviceFetchSettles(i) ==
  /\ i \in 1..Len(views)
  /\ views[i].advicePc = "fetching"
  /\ \E net \in NetworkResults :
       LET v == views[i]
           res == CareerAnswer(CareerRequestOf(v.profileData))
           status == IF net = "ok" THEN res.status ELSE 0
           seen == [v EXCEPT !.statuses = Append(v.statuses, status)]
           w == IF status = 200
                  THEN [seen EXCEPT !.advicePc = "saving", !.adviceData = res.body]
                  ELSE AdviceCatch(seen)
       IN /\ views' = [views EXCEPT ![i] = w]
          /\ FlagsAfter(w)
  /\ UNCHANGED resultDocs
  /\ UNCHANGED notView

\* part_002 lines 285-288 and 339-343: setDoc of careerAdvice/{uid} takes
\* effect, generateCareerAdvice returns and the advice page is navigated to;
\* or setDoc fails, which the attempt's catch block handles like any failure
AdviceSaveSettles(i) ==
  /\ i \in 1..Len(views)
  /\ views[i].advicePc = "saving"
  /\ \E write \in StoreResults :
       LET v == views[i]
           w == IF write = "ok"
                  THEN [v EXCEPT !.advicePc = "returned", !.wroteAdvice = TRUE,
                                 !.navigated = TRUE, !.pc = "ended"]
                  ELSE AdviceCatch(v)
       IN /\ views' = [views EXCEPT ![i] = w]
          /\ FlagsAfter(w)
          /\ resultDocs' = IF write = "ok"
                             THEN [resultDocs EXCEPT
                                     !.careerAdvice = CareerAdviceDocument(v.adviceData)]
                             ELSE resultDocs
  /\ UNCHANGED notView

\* part_002 lines 293-295 and 255: the timer fires, control returns to the
\* loop head
AdviceWaitElapsed(i) ==
  /\ i \in 1..Len(views)
  /\ views[i].advicePc = "waiting"
  /\ views' = [views EXCEPT ![i] = AdviceLoopHead(views[i])]
  /\ UNCHANGED <<isSavingResults, isGeneratingCareerAdvice, resultDocs>>
  /\ UNCHANGED notView

\* part_002 lines 44-45: no run yet; nothing written for the user
InitView ==
  /\ views = <<>>
  /\ isSavingResults = FALSE
  /\ isGeneratingCareerAdvice = FALSE
  /\ resultDocs = [gameTranscripts |-> Undef, userProfiles |-> Undef,
                   careerAdvice |-> Undef]

NextView ==
  \/ HandleViewResultsStart
  \/ \E i \in 1..MaxViews : TranscriptSaveSettles(i)
  \/ \E i \in 1..MaxViews : ProfileFetchSettles(i)
  \/ \E i \in 1..MaxViews : ProfileSaveSettles(i)
  \/ \E i \in 1..MaxViews : AdviceFetchSettles(i)
  \/ \E i \in 1..MaxViews : AdviceSaveSettles(i)
  \/ \E i \in 1..MaxViews : AdviceWaitElapsed(i)

(***************************************************************************)
(* Specifications.  Every handler starts idle; each specification runs one *)
(* group of operations and leaves the others' state alone.                 *)
(***************************************************************************)
Init ==
  /\ InitCareer /\ InitTurn /\ InitSkill /\ InitAnalysis
  /\ InitProfile /\ InitGame /\ InitFallback /\ InitServer /\ InitView

SpecCareer == Init /\ [][NextCareer]_vars

SpecTurn == Init /\ [][NextTurn]_vars

SpecSkill == Init /\ [][NextSkill]_vars

SpecCacheRead == Init /\ [][NextCacheRead]_vars

SpecAnalysis == Init /\ [][NextAnalysis]_vars

SpecProfile == Init /\ [][NextProfile]_vars

SpecGame == Init /\ [][NextGame]_vars

SpecFallback == Init /\ [][NextFallback]_vars

SpecStages == Init /\ [][NextStages]_vars

SpecServer == Init /\ [][NextServer]_vars

SpecResults == Init /\ [][NextView]_vars

(***************************************************************************)
(* Claims about the Career Path Generator, checked under SpecCareer.       *)
(***************************************************************************)
\* the handler answered a request that reached callGeminiAPIWithGrounding
CareerGenerated == careerPc = "responded" /\ careerCalls > 0

\* a CareerAdvice as the data model defines it, stated on the value alone
NonEmptyString(v) == v.t = "string" /\ v.s # ""

WellFormedCareerAdvice(v) ==
  /\ v.t = "object"
  /\ NonEmptyString(Get(v, "direction"))
  /\ Get(v, "paths").t = "array"
  /\ Len(Get(v, "paths").items) = 5
  /\ \A i \in 1..5 :
       /\ Get(v, "paths").items[i].t = "object"
       /\ NonEmptyString(Get(Get(v, "paths").items[i], "title"))
       /\ NonEmptyString(Get(Get(v, "paths").items[i], "description"))

C4_GenerateNeverRaises ==
  /\ CareerGenerated => careerRes.status = 200 /\ careerRes.body.t = "object"
  /\ careerPc = "backoff" => attempts < 3

\* all three attempts failed and the request was still answered with 200
C4_Witness ==
  /\ CareerGenerated
  /\ careerFailures = 3
  /\ careerRes.status = 200

\* C5: at most 3 oracle invocations per request; a failed attempt that is not
\* the third leads to a backoff and then to exactly one further invocation;
\* the first accepted result ends the loop with no further invocation.
C5_Invariant ==
  /\ careerCalls <= 3
  /\ careerFailures <= careerCalls
  /\ careerPc = "calling" => careerFailures = careerCalls - 1
  /\ careerPc = "backoff" => careerFailures = careerCalls /\ careerCalls < 3
  /\ (CareerGenerated /\ careerFallbacks = 0) => careerFailures = careerCalls - 1

C5_Step ==
  /\ (careerFailures' = careerFailures + 1 /\ careerFailures' < 3)
       => careerPc' = "backoff"
  /\ careerPc = "backoff"
       => careerPc' = "calling" /\ careerCalls' = careerCalls + 1
  /\ (careerPc = "calling" /\ careerFailures' = careerFailures)
       => careerPc' = "responded" /\ careerCalls' = careerCalls
  /\ careerPc = "responded" => careerPc' = "idle"

C5_AtMostThreeAttempts == []C5_Invariant /\ [][C5_Step]_vars

\* a second attempt is in flight after a failed first one
C5_Witness == careerPc = "calling" /\ careerCalls = 2 /\ careerFailures = 1

\* C6: after 3 failed attempts the fixed fallback is returned exactly once
\* and no further attempt is made; the fallback is never returned before the
\* third failure; the fallback itself passes the five-path validation.
C6_FallbackAfterThirdFailure ==
  /\ careerFailures = 3
       => /\ careerPc = "responded"
          /\ careerFallbacks = 1
          /\ careerCalls = 3
          /\ careerRes.status = 200
  /\ careerFallbacks <= 1
  /\ careerFallbacks = 1
       => /\ careerFailures = 3
          /\ Get(careerRes.body, "direction") = Str("fallback direction")
          /\ WellFormedCareerAdvice(careerRes.body)
  /\ careerFailures < 3 => careerFallbacks = 0

\* the fallback has been returned
C6_Witness == careerPc = "responded" /\ careerFallbacks = 1

\* C7: the wait after failed attempt k (k < 3) is 2^k seconds (2 s, then 4 s)
\* and no wait follows failed attempt 3.
C7_BackoffSchedule ==
  /\ Len(waits) = (IF careerFailures < 3 THEN careerFailures ELSE 2)
  /\ \A k \in 1..Len(waits) : waits[k] = (2 ^ k) * 1000

\* the third attempt has failed: two waits were made, none after it
C7_Witness == careerFailures = 3 /\ waits = <<2000, 4000>>

(***************************************************************************)
(* Claims about turn generation, checked under SpecTurn.                   *)
(***************************************************************************)
\* a handler answered a request for which it called the oracle
TurnGenerated(op) == turnPc = "responded" /\ turnOp = op /\ turnCalls > 0

\* C1: advance turn returns questionType 'finale' only when the computed turn
\* number (count of 'ai' entries + 1) is exactly the scripted terminal turn 9,
\* whatever the oracle's outcome; below turn 9 it never returns 'finale'.
C1_FinaleOnlyAtTerminalTurn ==
  (TurnGenerated("continue") /\ Get(turnRes.body, "questionType") = Str("finale"))
    => currentTurn = 9

\* C2: for every start-turn or advance-turn request that passes input
\* validation, however the oracle call ends (transport failure, empty output,
\* non-JSON output, JSON failing the shape check, or an accepted response),
\* the handler answers 200 with a PromptEntry that has a narrative and a
\* questionType.
C2_OracleFailureAbsorbed ==
  (turnPc = "responded" /\ turnCalls > 0)
    => /\ turnRes.status = 200
       /\ NonEmptyString(Get(turnRes.body, "narrative"))
       /\ NonEmptyString(Get(turnRes.body, "questionType"))

\* advance turn answered after the oracle returned JSON without a questionType
C2_Witness ==
  /\ TurnGenerated("continue")
  /\ turnOracle.kind = "json"
  /\ Get(turnOracle.value, "narrative") = Str("text")
  /\ Get(turnOracle.value, "questionType") = Undef
  /\ turnRes.status = 200

(***************************************************************************)
(* Claims about the skill-analysis cache, checked under SpecSkill.         *)
(***************************************************************************)
SameAnalysis(x, y) ==
  /\ Get(x, "brief") = Get(y, "brief")
  /\ Get(x, "totalSkills") = Get(y, "totalSkills")
  /\ Get(x, "skillGap") = Get(y, "skillGap")

C9_PersistedInsertionAdditive ==
  \A i \in 1..Len(clicks) :
    (clicks[i].pc = "shown" /\ clicks[i].saved)
      => clicks[i].title \in DOMAIN skillDoc.data

SkillOracleError(outcome) ==
  outcome.kind # "json" \/ ~ValidSkillAnalysis(outcome.value)

C11_Invariant ==
  \A i \in 1..Len(clicks) :
    clicks[i].pc = "error"
      => /\ clicks[i].data = Undef
         /\ clicks[i].result = Undef
         /\ ~clicks[i].saved

C11_Step ==
  \A i \in 1..Len(clicks), outcome \in SkillOutcomes :
    (SkillOracleError(outcome) /\ SkillApiReply(i, outcome))
      => LET c == clicks[i]
             body == Obj([userProfile |-> c.profile, careerPath |-> CareerPathOf(c.title)])
             res == SkillHandlerResult("POST", body, outcome)
         IN /\ res.status = 500
            /\ res.body = ErrorBody
            /\ clicks'[i].pc = "error"
            /\ clicks'[i].calledOracle
            /\ modal'[c.page].analysisError
            /\ ~modal'[c.page].isAnalysisLoading
            /\ modal'[c.page].skillAnalysis = modal[c.page].skillAnalysis
            /\ skillAnalysisCache' = skillAnalysisCache
            /\ skillDoc' = skillDoc

\* C11: skill-gap analysis does not absorb oracle errors: when the oracle call
\* of a request ends in any of the four error kinds, the handler answers 500
\* with an error body and no analysis, the page shows an analysis error, and
\* neither the in-memory cache nor the persisted document gains an entry; a
\* failed request never holds an analysis and is never saved.
C11_OracleErrorsSurface == []C11_Invariant /\ [][C11_Step]_vars

\* a request failed at the oracle and its title is in neither cache layer
C11_Witness ==
  \E i \in 1..Len(clicks) :
    /\ clicks[i].pc = "error"
    /\ clicks[i].calledOracle
    /\ clicks[i].title \notin DOMAIN skillAnalysisCache[clicks[i].page]
    /\ clicks[i].title \notin DOMAIN skillDoc.data
    /\ modal[clicks[i].page].analysisError

(***************************************************************************)
(* Claims about the generateSkillAnalysis handler, checked under           *)
(* SpecAnalysis.                                                           *)
(***************************************************************************)
\* the handler answered 200 to a request for which it called the oracle
AnalysisReturned ==
  analysisPc = "responded" /\ analysisCalls > 0 /\ analysisRes.status = 200

NonEmptyList(v) == IsArray(v) /\ Len(v.items) > 0

\* C12: an oracle result is accepted only if brief is present and totalSkills
\* and skillGap are both non-empty lists; a result with an empty totalSkills
\* or skillGap is rejected and not returned.
C12_EmptyListsRejected ==
  AnalysisReturned
    => /\ Truthy(Get(analysisRes.body, "brief"))
       /\ NonEmptyList(Get(analysisRes.body, "totalSkills"))
       /\ NonEmptyList(Get(analysisRes.body, "skillGap"))

\* C13: every SkillAnalysis returned has exactly 2 skillGap entries and
\* between 3 and 5 totalSkills entries.
C13_SkillCounts ==
  AnalysisReturned
    => /\ IsArray(Get(analysisRes.body, "skillGap"))
       /\ Len(Get(analysisRes.body, "skillGap").items) = 2
       /\ IsArray(Get(analysisRes.body, "totalSkills"))
       /\ Len(Get(analysisRes.body, "totalSkills").items) \in 3..5

(***************************************************************************)
(* Claims about profile synthesis and the stored profile, checked under    *)
(* SpecProfile.                                                            *)
(***************************************************************************)
\* the handler answered 200 to a request for which it called the oracle
ProfileReturned ==
  profilePc = "responded" /\ profileCalls > 0 /\ profileRes.status = 200

\* a field of a TraitProfile is present and non-empty
NonEmptyField(v, field) ==
  IF field \in ListFields
    THEN NonEmptyList(Get(v, field))
    ELSE NonEmptyString(Get(v, field))

\* C14: every TraitProfile returned by the Profile Synthesizer, oracle-derived
\* or fallback, has all six fields present and non-empty, and passes the
\* required-field check of the career handler it is handed to.
C14_ProfileComplete ==
  ProfileReturned
    => /\ \A field \in requiredFields : NonEmptyField(profileRes.body, field)
       /\ CareerBodyValid(CareerRequestOf(profileRes.body))
       /\ HandedToCareer => CareerBodyValid(CareerRequestOf(resultsProfile))

\* C15: the TraitProfile the results flow wrote for the user and the
\* TraitProfile an advice page has loaded for the same user are
\* field-for-field identical.
C15_ProfileRoundTrip ==
  \A page \in Pages :
    (userProfilesDoc.exists /\ userProfile[page] # Null)
      => \A field \in requiredFields :
           Get(userProfile[page], field) = Get(Get(userProfilesDoc.data, "profile"), field)

\* the oracle call of a profile request ended in one of the four error kinds
ProfileOracleError(outcome) ==
  outcome.kind \in OracleFailureKinds
    \/ (outcome.kind = "json" /\ ~ValidProfile(outcome.value))

\* C16: profile synthesis absorbs every oracle failure without retrying: one
\* oracle call is made per request, and when it ends in any of the four
\* error kinds the handler answers 200 with the one fixed fallback profile.
C16_ProfileFailureAbsorbed ==
  /\ profileCalls <= 1
  /\ (profilePc = "responded" /\ profileCalls > 0 /\ ProfileOracleError(profileOracle))
       => /\ profileCalls = 1
          /\ profileRes.status = 200
          /\ profileRes.body = FallbackProfile
          /\ Get(profileRes.body, "problemSolvingStyle") = Str("Adaptive & Thoughtful")
          /\ Get(profileRes.body, "preferredWorkEnvironment") = Str("Flexible & Collaborative")
          /\ Len(Get(profileRes.body, "keyAptitudes").items) = 3

\* the results flow's request was answered with the fallback after the
\* oracle returned JSON without a personalitySummary
C16_Witness ==
  /\ resultsPc = "awaitProfile"
  /\ profilePc = "responded"
  /\ profileOracle.kind = "json"
  /\ ~AccessThrows(profileOracle.value)
  /\ ~Truthy(Get(profileOracle.value, "personalitySummary"))
  /\ profileRes = Response(200, FallbackProfile)

(***************************************************************************)
(* Claims about the quiz session, checked under SpecGame.                  *)
(***************************************************************************)
\* C17: the turn number the handler computes for a request is the number of
\* prompt ('ai') entries of the transcript sent, plus one, whatever the
\* number of response entries; in a session whose start turn succeeded the
\* turn numbers requested are 2, 3, 4, ..., one more per exchange (and 1, 2,
\* 3, ... in a session whose start turn failed, whose transcript holds one
\* more response than prompts).
C17_TurnNumbering ==
  /\ isSubmitting
       => requestedTurns[Len(requestedTurns)] =
            aiResponseCount(newConversationHistory) + 1
  /\ startOutcome = "ok"
       => \A k \in 1..Len(requestedTurns) : requestedTurns[k] = k + 1
  /\ startOutcome = "failed"
       => \A k \in 1..Len(requestedTurns) : requestedTurns[k] = k
  /\ (startOutcome = "ok" /\ ~isSubmitting /\ currentScene # ContinueSceneFallback)
       => aiResponseCount(conversationHistory) = Len(requestedTurns) + 1

\* three exchanges were completed after a successful start turn
C17_Witness ==
  /\ startOutcome = "ok"
  /\ ~isSubmitting
  /\ requestedTurns = <<2, 3, 4>>
  /\ aiResponseCount(conversationHistory) = 4

\* a finale prompt is in the client's transcript
FinaleProduced ==
  \E i \in 1..Len(conversationHistory) :
    /\ Get(conversationHistory[i], "type") = Str("ai")
    /\ Get(Get(conversationHistory[i], "content"), "questionType") = Str("finale")

\* C18: once a finale prompt has been produced for the session, the client's
\* finished flag is set, no advance-turn request is in flight or can be
\* issued, and the finale is the last entry of the transcript.
C18_FinaleTerminal ==
  FinaleProduced
    => /\ isGameFinished
       /\ ~isSubmitting
       /\ ~OptionsShown
       /\ Get(Get(conversationHistory[Len(conversationHistory)], "content"),
              "questionType") = Str("finale")

(***************************************************************************)
(* Claims about the fallback of continueGame, checked under SpecFallback.  *)
(***************************************************************************)
SameTurnContent(x, y) ==
  /\ Get(x, "narrative") = Get(y, "narrative")
  /\ Get(x, "questionType") = Get(y, "questionType")
  /\ Get(x, "question") = Get(y, "question")
  /\ Get(x, "options") = Get(y, "options")

\* C19: the fallback is a function of the turn number alone: two failed calls
\* with the same turn number return the same narrative, questionType,
\* question and options, whatever the transcript, the error and the calls
\* made before.
C19_FallbackPure ==
  (fallbackCalls >= 2 /\ fallbackPrev.turn = fallbackCall.turn)
    => SameTurnContent(fallbackPrev.output, fallbackOutput)

\* the latest two failed calls had the same turn number, after an earlier
\* call, and the latest was made for a transcript with responses
C19_Witness ==
  /\ fallbackCalls = 3
  /\ fallbackPrev.turn = fallbackCall.turn
  /\ fallbackCall.turn = 5
  /\ fallbackCall.outcome.kind = "json"
  /\ Len(fallbackCall.history) = 8

\* C20: the fallback is looked up by turn-number range: turns 1-2 return the
\* first table entry, 3-4 the second, 5-7 the third, 8 and above the finale
\* entry; it returns questionType 'finale' for no turn number below 8.
C20_FallbackRanges ==
  fallbackCalls >= 1
    => LET turn == fallbackCall.turn IN
         /\ turn \in 1..2 => fallbackOutput = fallbackResponses[1]
         /\ turn \in 3..4 => fallbackOutput = fallbackResponses[2]
         /\ turn \in 5..7 => fallbackOutput = fallbackResponses[3]
         /\ turn >= 8 => fallbackOutput = fallbackResponses[4]
         /\ Get(fallbackOutput, "questionType") = Str("finale") <=> turn >= 8
         /\ turn \in 1..2 => Get(fallbackOutput, "narrative") = Str("demo work environment")
         /\ turn \in 5..7 => Get(fallbackOutput, "narrative") = Str("demo interests")

\* the fallback was called with turn 7 and then with turn 8
C20_Witness ==
  /\ fallbackPrev.turn = 7
  /\ Get(fallbackPrev.output, "questionType") = Str("single-choice")
  /\ fallbackCall.turn = 8
  /\ Get(fallbackOutput, "questionType") = Str("finale")

(***************************************************************************)
(* Further claims about turn generation, checked under SpecTurn.           *)
(***************************************************************************)
\* C21: for any start-turn request with valid intake data, the PromptEntry
\* returned for turn 1 has questionType 'single-choice' and exactly 4
\* options, whichever way the oracle call ends.
C21_StartTurnSingleChoiceFour ==
  (TurnGenerated("start") /\ turnRes.status = 200)
    => /\ Get(turnRes.body, "questionType") = Str("single-choice")
       /\ IsArray(Get(turnRes.body, "options"))
       /\ Len(Get(turnRes.body, "options").items) = 4

\* C22: turn generation makes exactly one oracle call per request: a failed
\* call is answered at once with the fallback of the request's own turn
\* number (the start fallback for start turn), with no second call and no
\* step in between.
C22_Invariant ==
  /\ turnCalls <= 1
  /\ turnPc = "calling" => turnCalls = 1
  /\ (turnPc = "responded" /\ turnCalls = 1 /\ ~GameResponseAccepted(turnOracle))
       => /\ turnRes.status = 200
          /\ turnOp = "start" => turnRes.body = StartFallback
          /\ turnOp = "continue"
               => /\ currentTurn = aiResponseCount(turnReq.conversationHistory.items) + 1
                  /\ turnRes.body = ContinueFallback(currentTurn)

C22_Step ==
  /\ turnPc = "calling" => (turnPc' = "responded" /\ turnCalls' = turnCalls)
  /\ turnPc = "responded" => (turnPc' = "idle" /\ turnCalls' = 0)

C22_SingleOracleAttempt == []C22_Invariant /\ [][C22_Step]_vars

\* advance turn answered turn 5 with its fallback after an HTTP error, one call made
C22_Witness ==
  /\ TurnGenerated("continue")
  /\ turnOracle.kind = "httpError"
  /\ currentTurn = 5
  /\ turnCalls = 1
  /\ turnRes.body = fallbackResponses[3]

\* C24: start turn answers 400 when the user identifier is missing, and 404
\* when no intake data is supplied and the read of users/{uid} finds no
\* document or fails; supplied intake data means no read of the store; the
\* 400 and 404 answers are given without an oracle call.
C24_StartTurnValidation ==
  (turnOp = "start" /\ turnPc # "idle" /\ turnReq.method = "POST")
    => /\ ~Truthy(turnReq.userUid)
            => (turnRes.status = 400 /\ turnCalls = 0 /\ storeReads = 0)
       /\ (Truthy(turnReq.userUid) /\ Truthy(turnReq.userData))
            => /\ storeReads = 0
               /\ storeRead = "none"
               /\ turnRes.status \notin {400, 404}
               /\ turnCalls = 1
       /\ (Truthy(turnReq.userUid) /\ ~Truthy(turnReq.userData))
            => /\ storeReads = 1
               /\ storeRead \in {"missing", "error"}
                    => (turnRes.status = 404 /\ turnCalls = 0)
               /\ storeRead = "exists" => (turnRes.status # 404 /\ turnCalls = 1)
       /\ turnRes.status \in {400, 404} => turnCalls = 0

\* a request without intake data was answered 404 after the read failed
C24_Witness ==
  /\ turnOp = "start"
  /\ turnPc = "responded"
  /\ turnReq.userData = Undef
  /\ storeRead = "error"
  /\ turnRes.status = 404
  /\ turnCalls = 0

(***************************************************************************)
(* Further claims about the Career Path Generator, checked under           *)
(* SpecCareer.                                                             *)
(***************************************************************************)
\* a profile field that is absent or empty: no value, "" or []
EmptyOrAbsent(v) ==
  \/ v.t \in {"undefined", "null"}
  \/ v.t = "string" /\ v.s = ""
  \/ v.t = "array" /\ Len(v.items) = 0

\* C25: generate career paths answers 400, without calling the oracle, for
\* every profile in which one of the six fields is absent or empty (an empty
\* list or an empty string included), and goes on to generation only when
\* all six are present and non-empty.
C25_IncompleteProfileRejected ==
  (/\ careerPc # "idle"
   /\ careerReq.method = "POST"
   /\ Truthy(careerReq.userUid)
   /\ careerReq.userProfile.t = "object")
    => IF \E field \in requiredFields : EmptyOrAbsent(Get(careerReq.userProfile, field))
         THEN careerRes.status = 400 /\ careerCalls = 0
         ELSE careerCalls >= 1 /\ careerRes.status # 400

\* oracle calls of the request that have not ended yet
CareerCallsInFlight ==
  careerCalls - careerFailures
    - (IF CareerGenerated /\ careerFallbacks = 0 THEN 1 ELSE 0)

\* C27: the attempts of one request are strictly sequential: at most one
\* oracle call is in flight, an attempt after the first starts only from the
\* elapsed backoff wait of the failed attempt before it, and no attempt
\* starts once a result has been returned.
C27_Invariant ==
  /\ CareerCallsInFlight \in {0, 1}
  /\ CareerCallsInFlight = 1 <=> careerPc = "calling"
  /\ careerPc = "backoff" => Len(waits) = careerCalls

C27_Step ==
  /\ careerCalls' = careerCalls + 1
       => \/ careerPc = "idle" /\ careerCalls = 0
          \/ /\ careerPc = "backoff"
             /\ careerFailures = careerCalls
             /\ Len(waits) = careerCalls
  /\ careerPc = "responded" => careerCalls' \in {careerCalls, 0}
  /\ careerPc = "responded" => careerPc' \in {"responded", "idle"}

C27_AttemptsSequential == []C27_Invariant /\ [][C27_Step]_vars

\* the third attempt is in flight, after two failed attempts and their waits
C27_Witness ==
  /\ careerPc = "calling"
  /\ careerCalls = 3
  /\ careerFailures = 2
  /\ waits = <<2000, 4000>>

(***************************************************************************)
(* Further claims about the quiz session, checked under SpecGame.          *)
(***************************************************************************)
\* every entry of s is at the same position, unchanged, in t
IsPrefixOf(s, t) ==
  /\ Len(s) <= Len(t)
  /\ \A i \in 1..Len(s) : t[i] = s[i]

\* the entries t has after those of s
AddedEntries(s, t) == SubSeq(t, Len(s) + 1, Len(t))

\* C26: the client transcript is append-only: every step that changes it
\* keeps each earlier entry at its position with its type, content and
\* timestamp, and adds at the end either the first prompt (to the empty
\* transcript of a starting session) or a user response followed by the
\* prompt returned for it.
C26_Step ==
  /\ IsPrefixOf(conversationHistory, conversationHistory')
  /\ conversationHistory' # conversationHistory
       => LET added == AddedEntries(conversationHistory, conversationHistory') IN
            \/ /\ isLoading
               /\ conversationHistory = <<>>
               /\ Len(added) = 1
               /\ Get(added[1], "type") = Str("ai")
            \/ /\ isSubmitting
               /\ Len(added) = 2
               /\ Get(added[1], "type") = Str("user")
               /\ Get(added[2], "type") = Str("ai")

C26_TranscriptAppendOnly == [][C26_Step]_vars

\* two exchanges were appended to the transcript of a started session
C26_Witness ==
  /\ startOutcome = "ok"
  /\ ~isSubmitting
  /\ Len(conversationHistory) = 5
  /\ Get(conversationHistory[4], "type") = Str("user")
  /\ Get(conversationHistory[5], "type") = Str("ai")

(***************************************************************************)
(* Claims about the question kinds, checked under SpecTurn and SpecGame.   *)
(***************************************************************************)
\* C29: every PromptEntry returned by start turn or advance turn has a
\* questionType that is 'single-choice', 'multi-choice' or 'finale'; an
\* oracle response with any other questionType is replaced by the fallback.
C29_QuestionTypeEnumerated ==
  (turnPc = "responded" /\ turnRes.status = 200)
    => Get(turnRes.body, "questionType")
         \in {Str("single-choice"), Str("multi-choice"), Str("finale")}

\* C30: the quiz cannot get stuck: whenever the client shows a prompt that is
\* not a finale and the session is not finished, the prompt carries at least
\* one option for the user to select and submit.
C30_QuizNeverStuck ==
  (/\ ~isLoading
   /\ ~isGameFinished
   /\ ~isSubmitting
   /\ Get(currentScene, "questionType") # Str("finale"))
    => /\ IsArray(Get(currentScene, "options"))
       /\ Len(Get(currentScene, "options").items) >= 1

(***************************************************************************)
(* Claims about caller-input validation in every stage, checked under      *)
(* SpecStages.                                                             *)
(***************************************************************************)
\* a body field the caller left out
Absent(v) == v.t \in {"undefined", "null"}

\* C23: in every stage, a POST request that lacks a required input (the user
\* identifier, a transcript that is an array, the profile or the career
\* path, as the stage requires) is answered 400 with no oracle call made
\* and no backoff wait performed for it.
C23_MissingFieldRejected ==
  /\ (/\ careerPc # "idle"
      /\ careerReq.method = "POST"
      /\ (Absent(careerReq.userUid) \/ Absent(careerReq.userProfile)))
       => /\ careerPc = "responded"
          /\ careerRes.status = 400
          /\ careerCalls = 0
          /\ waits = <<>>
  /\ (/\ turnPc # "idle"
      /\ turnOp = "continue"
      /\ turnReq.method = "POST"
      /\ (Absent(turnReq.userUid) \/ turnReq.conversationHistory.t # "array"))
       => /\ turnPc = "responded"
          /\ turnRes.status = 400
          /\ turnCalls = 0
  /\ (/\ turnPc # "idle"
      /\ turnOp = "start"
      /\ turnReq.method = "POST"
      /\ Absent(turnReq.userUid))
       => /\ turnPc = "responded"
          /\ turnRes.status = 400
          /\ turnCalls = 0
  /\ (/\ profilePc # "idle"
      /\ profileReq.method = "POST"
      /\ (Absent(profileReq.userUid) \/ profileReq.conversationHistory.t # "array"))
       => /\ profilePc = "responded"
          /\ profileRes.status = 400
          /\ profileCalls = 0
  /\ (/\ analysisPc # "idle"
      /\ analysisReq.method = "POST"
      /\ (Absent(analysisReq.userProfile) \/ Absent(analysisReq.careerPath)))
       => /\ analysisPc = "responded"
          /\ analysisRes.status = 400
          /\ analysisCalls = 0

\* advance turn answered 400 to a request with a transcript and no user
\* identifier
C23_Witness ==
  /\ turnPc = "responded"
  /\ turnOp = "continue"
  /\ turnReq.method = "POST"
  /\ Absent(turnReq.userUid)
  /\ turnReq.conversationHistory.t = "array"
  /\ turnRes.status = 400
  /\ turnCalls = 0

(***************************************************************************)
(* Claims about concurrent requests of different users, checked under      *)
(* SpecServer.                                                             *)
(***************************************************************************)
\* the request body with the value of the user identifier left aside
BodyOf(inv) ==
  [inv.req EXCEPT !.userUid = IF Truthy(@) THEN Str("uid") ELSE @]

\* two invocations were given the same request and the same replies so far
SameInputs(a, b) ==
  /\ a.stage = b.stage
  /\ BodyOf(a) = BodyOf(b)
  /\ a.read = b.read
  /\ a.replies = b.replies

\* C28: the handlers keep no state between or across requests: the response
\* to a request is determined by its body and the oracle's (for start turn
\* also the store's) replies to it, so two invocations given the same inputs
\* answer alike whatever the other user's request is and however the steps
\* of the two interleave, and a step of one invocation leaves the other
\* user's invocation as it is.
C28_Invariant ==
  \A u \in Users, v \in Users :
    (/\ u # v
     /\ invocations[u].pc # "idle"
     /\ invocations[v].pc # "idle"
     /\ SameInputs(invocations[u], invocations[v]))
      => /\ invocations[u].pc = "responded" <=> invocations[v].pc = "responded"
         /\ invocations[u].res = invocations[v].res

C28_Step ==
  \A u \in Users, v \in Users :
    (u # v /\ invocations[u]' # invocations[u]) => invocations[v]' = invocations[v]

C28_RequestsIndependent == []C28_Invariant /\ [][C28_Step]_vars

\* both users' career requests were answered after a failed first attempt
\* and an accepted second one
C28_Witness ==
  /\ invocations["user A"].stage = "generateCareerAdvice"
  /\ invocations["user A"].pc = "responded"
  /\ Len(invocations["user A"].replies) = 2
  /\ invocations["user A"].res.status = 200
  /\ invocations["user B"].pc = "responded"
  /\ SameInputs(invocations["user A"], invocations["user B"])

(***************************************************************************)
(* Claims about selections and submissions, checked under SpecGame.        *)
(***************************************************************************)
SingleChoice(scene) == Get(scene, "questionType") = Str("single-choice")

\* the response entry a continueGame call posted
PostedResponse(call) == call.newConversationHistory[Len(call.newConversationHistory)]

FinalePrompt(entry) ==
  /\ Get(entry, "type") = Str("ai")
  /\ Get(Get(entry, "content"), "questionType") = Str("finale")

\* the transcript ends with a finale prompt
EndsWithFinale(h) == Len(h) > 0 /\ FinalePrompt(h[Len(h)])

\* C34 as stated: the client enters the finished state only after a prompt
\* with questionType 'finale' has been received from advance turn and
\* appended to the transcript; in every finished state the last transcript
\* entry is a finale prompt.
C34_FinishedAfterFinale == isGameFinished => EndsWithFinale(conversationHistory)

\* the client's own closing scene is shown
ClosedByFailure ==
  /\ Get(currentScene, "narrative") = Str("client finale")
  /\ Get(currentScene, "questionType") = Str("finale")
  /\ Get(currentScene, "options") = Undef

C34_Invariant ==
  isGameFinished
    => \/ /\ EndsWithFinale(conversationHistory)
          /\ Get(currentScene, "questionType") = Str("finale")
       \/ ClosedByFailure

C34_Step ==
  (~isGameFinished /\ isGameFinished')
    => /\ isSubmitting
       /\ ~isSubmitting'
       /\ \/ /\ Len(conversationHistory') = Len(newConversationHistory) + 1
             /\ IsPrefixOf(newConversationHistory, conversationHistory')
             /\ EndsWithFinale(conversationHistory')
          \/ /\ conversationHistory' = conversationHistory
             /\ ClosedByFailure'

\* C34, amended: the client enters the finished state only when an
\* advance-turn request settles, in one of two ways: a prompt with
\* questionType 'finale' was received and appended to the transcript posted,
\* and then the last transcript entry is that finale prompt; or the request
\* failed, and then the client shows its own closing scene and the transcript
\* is left as it was, whatever its last entry.
C34_FinishedWhenTurnSettles == []C34_Invariant /\ [][C34_Step]_vars

\* the session was closed by a failed advance-turn request after one
\* completed exchange
C34_Witness ==
  /\ isGameFinished
  /\ ClosedByFailure
  /\ Len(conversationHistory) = 3
  /\ ~EndsWithFinale(conversationHistory)
  /\ Len(requestedTurns) = 2

\* C35: in every client state of the quiz, the displayed question counter
\* equals the number of prompt ('ai') entries in the client transcript.
C35_CounterCountsPrompts == questionCount = aiResponseCount(conversationHistory)

\* the counter shows 3 after two completed exchanges, and a third exchange
\* has failed
C35_Witness ==
  /\ questionCount = 3
  /\ Len(conversationHistory) = 5
  /\ isGameFinished
  /\ Len(requestedTurns) = 3

\* prompts at the odd positions, responses at the even ones
Alternates(h) ==
  \A i \in 1..Len(h) :
    Get(h[i], "type") = (IF i % 2 = 1 THEN Str("ai") ELSE Str("user"))

\* C36: in every client state the transcript is empty or starts with a
\* prompt and strictly alternates prompt, response, prompt, ...; every
\* transcript sent to advance turn ends with a response and contains as many
\* responses as prompts, also after a failed start-turn request.
C36_TranscriptAlternates ==
  /\ Alternates(conversationHistory)
  /\ \A i \in 1..Len(pendingCalls) :
       LET sent == pendingCalls[i].newConversationHistory IN
         /\ Get(sent[Len(sent)], "type") = Str("user")
         /\ Len(sent) = 2 * aiResponseCount(sent)

\* C37: at most one advance-turn request of a session is in flight at any
\* time, and it is the one the submitting flag stands for; it was built from
\* the transcript the client still holds, so its answer is applied to that
\* transcript ...
C37_Invariant ==
  /\ Len(pendingCalls) <= 1
  /\ isSubmitting <=> Len(pendingCalls) = 1
  /\ \A i \in 1..Len(pendingCalls) :
       LET sent == pendingCalls[i].newConversationHistory IN
         /\ sent = newConversationHistory
         /\ Len(sent) = Len(conversationHistory) + 1
         /\ IsPrefixOf(conversationHistory, sent)

\* ... while a submission is pending no second one starts, and a request
\* that settles either adds its response and the prompt returned, with one
\* counter increment, or leaves transcript and counter as they were.
C37_Step ==
  /\ Len(pendingCalls') > Len(pendingCalls) => ~isSubmitting
  /\ Len(pendingCalls') < Len(pendingCalls)
       => \/ /\ conversationHistory' = conversationHistory
             /\ questionCount' = questionCount
          \/ /\ Len(conversationHistory') = Len(conversationHistory) + 2
             /\ IsPrefixOf(pendingCalls[1].newConversationHistory, conversationHistory')
             /\ questionCount' = questionCount + 1
  /\ Len(pendingCalls') = Len(pendingCalls)
       => /\ conversationHistory' = conversationHistory \/ isLoading
          /\ questionCount' = questionCount \/ isLoading

C37_OneSubmissionInFlight == []C37_Invariant /\ [][C37_Step]_vars

\* a second submission is in flight after the first was applied, and the
\* selection was changed while it is pending
C37_Witness ==
  /\ Len(pendingCalls) = 1
  /\ Len(requestedTurns) = 2
  /\ Len(conversationHistory) = 3
  /\ selectedOptions # pendingCalls[1].selectedOptions

(***************************************************************************)
(* Claims about failures of the document store around a skill analysis,    *)
(* checked under SpecCacheRead and SpecSkill.                               *)
(***************************************************************************)
\* the read of skillAnalysis/{uid} made for the click's cache lookup failed
CacheReadFailed(i) == clicks[i].readFailed

\* the click went on to the analysis endpoint and the oracle was called
ReachedOracle(i) == clicks[i].pc \in {"saveRead", "saveWrite", "shown", "error"}
                      /\ clicks[i].calledOracle

\* C38 as stated: a failure while reading the skill-analysis cache from the
\* document store is treated as a cache miss; the analyzer proceeds to invoke
\* the oracle, and the user sees an error only if that oracle call itself
\* fails.
C38_ReadFailureThenOracle ==
  \A i \in 1..Len(clicks) :
    CacheReadFailed(i)
      => /\ clicks[i].hit = "none"
         /\ clicks[i].pc = "error" => (clicks[i].calledOracle /\ clicks[i].failure = "response")

\* C38, amended: a failure while reading the skill-analysis cache from the
\* document store is treated as a cache miss, not as an error: the lookup
\* returns no entry and the analysis is generated as after any miss. The user
\* sees an error only if that generation fails: because no user profile is
\* loaded on the page (no request is sent), because the request does not
\* reach the endpoint, or because the endpoint answers with an error, which
\* for the request the page builds means that the oracle call failed.
C38_ReadFailureIsMiss ==
  \A i \in 1..Len(clicks) :
    CacheReadFailed(i)
      => /\ clicks[i].hit = "none"
         /\ clicks[i].pc \in {"fetch", "saveRead", "saveWrite", "shown", "error"}
         /\ clicks[i].pc \in {"saveRead", "saveWrite", "shown"} => clicks[i].calledOracle
         /\ clicks[i].pc = "shown" => clicks[i].result = clicks[i].data
         /\ clicks[i].pc = "error"
              => \/ clicks[i].failure = "profile" /\ ~Truthy(clicks[i].profile)
                                                  /\ ~clicks[i].calledOracle
                 \/ clicks[i].failure = "fetch" /\ ~clicks[i].calledOracle
                 \/ clicks[i].failure = "response" /\ clicks[i].calledOracle

\* after failed cache reads, one click was shown the analysis the oracle
\* generated and another the error of a failed oracle call
C38_Witness ==
  \E i, j \in 1..Len(clicks) :
    /\ CacheReadFailed(i)
    /\ clicks[i].pc = "shown"
    /\ clicks[i].calledOracle
    /\ modal[clicks[i].page].skillAnalysis = clicks[i].data
    /\ CacheReadFailed(j)
    /\ clicks[j].pc = "error"
    /\ clicks[j].failure = "response"

\* the attempt of click i to persist its new analysis ends in this step
SaveEnds(i) ==
  /\ i \in 1..Len(clicks)
  /\ clicks[i].pc \in {"saveRead", "saveWrite"}
  /\ clicks'[i].pc \notin {"saveRead", "saveWrite"}

C39_Step ==
  \A i \in 1..MaxClicks :
    SaveEnds(i)
      => LET c == clicks[i] IN
           /\ clicks'[i].pc = "shown"
           /\ clicks'[i].result = c.data
           /\ modal'[c.page].skillAnalysis = c.data
           /\ clicks'[i].failure = "none"
           /\ c.title \in DOMAIN skillAnalysisCache'[c.page]
           /\ SameAnalysis(skillAnalysisCache'[c.page][c.title], c.data)
           /\ ~clicks'[i].saved => skillDoc' = skillDoc

\* C39: a failure while persisting a newly generated skill analysis does not
\* fail the analyze operation: whenever the attempt to persist ends, by a
\* failed read of the existing document, a failed write or a successful
\* write, the analysis is shown to the user and inserted into the page's
\* in-memory cache; when the attempt failed the persisted skillAnalysis/{uid}
\* document is left unchanged.
C39_SaveFailureAbsorbed == [][C39_Step]_vars

\* an analysis was saved for one title; the write of a second analysis, for
\* another title, failed: it is shown and cached, and the document holds the
\* first title only
C39_Witness ==
  \E i, j \in 1..Len(clicks) :
    /\ clicks[i].pc = "shown" /\ clicks[i].saved
    /\ clicks[j].pc = "shown" /\ clicks[j].calledOracle /\ ~clicks[j].saved
    /\ clicks[j].title # clicks[i].title
    /\ clicks[j].page = clicks[i].page
    /\ skillDoc.exists
    /\ DOMAIN skillDoc.data = {clicks[i].title}
    /\ clicks[j].title \in DOMAIN skillAnalysisCache[clicks[j].page]
    /\ modal[clicks[j].page].skillAnalysis = clicks[j].data

(***************************************************************************)
(* Claims about the results flow, checked under SpecResults.               *)
(***************************************************************************)
\* C32: a generate-career-paths request answered with a caller-input
\* validation error (400, missing profile field) is surfaced immediately and
\* never retried: the client's career-advice loop sends no further request
\* for it and performs no wait.
C32_ValidationErrorNotRetried ==
  \A i \in 1..Len(views) :
    \A k \in 1..Len(views[i].statuses) :
      views[i].statuses[k] = 400
        => /\ k = Len(views[i].statuses)
           /\ Len(views[i].waits) < k
           /\ views[i].advicePc = "thrown"

\* the run has sent a request to generateCareerAdvice
CareerRequested(v) == v.attempts > 0

\* C33: in the results flow the stages are ordered: a career-advice request
\* is issued only after profile synthesis has succeeded, the profile has been
\* written to userProfiles/{uid} and the transcript save has succeeded; the
\* advice page is navigated to only after careerAdvice/{uid} has been
\* written; if the transcript save or the profile step fails, no
\* career-advice request is made and no navigation occurs.
C33_StagesOrdered ==
  \A i \in 1..Len(views) :
    LET v == views[i] IN
      /\ CareerRequested(v)
           => /\ v.transcriptPromise = "fulfilled"
              /\ v.wroteTranscript
              /\ resultDocs.gameTranscripts # Undef
              /\ v.profilePromise = "fulfilled"
              /\ v.wroteProfile
              /\ resultDocs.userProfiles # Undef
      /\ v.navigated
           => /\ CareerRequested(v)
              /\ v.wroteAdvice
              /\ resultDocs.careerAdvice = CareerAdviceDocument(v.adviceData)
      /\ (v.transcriptPromise \in {"none", "rejected"} \/ v.profilePromise \in {"none", "rejected"})
           => /\ ~CareerRequested(v)
              /\ v.advicePc = "none"
              /\ ~v.navigated
              /\ ~v.wroteAdvice

\* a first run ended after its profile step failed, with no career-advice
\* request; a second run went through the stages and reached the advice page
\* on its second career-advice attempt
C33_Witness ==
  /\ Len(views) = 2
  /\ views[1].profilePromise = "rejected"
  /\ views[1].alert = "profile"
  /\ ~CareerRequested(views[1])
  /\ views[2].navigated
  /\ views[2].attempts = 2
  /\ resultDocs.careerAdvice # Undef

====
